---- MODULE Spec2Model ----
(***************************************************************************)
(* A state-machine model of the BasicAer python simulator                  *)
(* (qiskit/providers/basicaer/qasm_simulator.py, class QasmSimulatorPy).   *)
(*                                                                         *)
(* One backend instance runs the experiments of one qobj, one after the    *)
(* other.  The dispatcher (_run_single_shot) is modelled one instruction   *)
(* per step; its recursion into the split children is a stack of frames.   *)
(*                                                                         *)
(* Amplitudes are exact: a statevector is an integer vector `vec` with a   *)
(* common factor sqrt(num/den), which is closed under the gates of the     *)
(* model (angles that are multiples of pi/2 with real matrices, CX) and    *)
(* under the projections of measure and reset (scaling by 1/sqrt(p)).      *)
(* Floating point rounding is not modelled.  den = 0 stands for an array   *)
(* holding nan/inf (a division by a zero probability).                     *)
(*                                                                         *)
(* The random source is modelled by the values it can return: rand() is    *)
(* any u in [0,1), choice(p) any index of nonzero probability.             *)
(***************************************************************************)
EXTENDS Integers, Sequences, FiniteSets, TLC

(***************************************************************************)
(* Bounds of the model.                                                    *)
(***************************************************************************)
MaxShots == 2

\* absent optional field (hasattr(...) is False / None)
NoneV == -1

(***************************************************************************)
(* Integer helpers: python's unbounded ints, bit by bit.                   *)
(***************************************************************************)
RECURSIVE Pow2(_)
Pow2(k) == IF k = 0 THEN 1 ELSE 2 * Pow2(k - 1)

\* (x >> i) & 1
BitAt(x, i) == (x \div Pow2(i)) % 2

RECURSIVE BitAnd(_, _)
BitAnd(x, y) ==
    IF x = 0 \/ y = 0 THEN 0
    ELSE (x % 2) * (y % 2) + 2 * BitAnd(x \div 2, y \div 2)

\* (x & (~(1 << i))) | (b << i)
WriteBit(x, i, b) == x - BitAt(x, i) * Pow2(i) + b * Pow2(i)

RECURSIVE GCD(_, _)
GCD(a, b) == IF b = 0 THEN a ELSE GCD(b, a % b)

Abs(x) == IF x < 0 THEN -x ELSE x

(***************************************************************************)
(* Text conversions.  A hex string of the qobj is a sequence of            *)
(* characters; int(s, 16) accepts an optional 0x prefix.  hex() and bin()  *)
(* build the text of a non-negative int.                                   *)
(***************************************************************************)
HexChars == <<"0", "1", "2", "3", "4", "5", "6", "7",
              "8", "9", "a", "b", "c", "d", "e", "f">>

HexVal(c) == (CHOOSE k \in 1..16 : HexChars[k] = c) - 1

RECURSIVE IntOfDigits(_, _, _)
IntOfDigits(s, base, acc) ==
    IF s = <<>> THEN acc
    ELSE IntOfDigits(Tail(s), base, acc * base + HexVal(Head(s)))

\* int(s, 16)
IntHex(s) ==
    IF Len(s) >= 2 /\ s[1] = "0" /\ s[2] = "x"
    THEN IntOfDigits(SubSeq(s, 3, Len(s)), 16, 0)
    ELSE IntOfDigits(s, 16, 0)

RECURSIVE HexDigits(_)
HexDigits(n) ==
    IF n < 16 THEN HexChars[n + 1]
    ELSE HexDigits(n \div 16) \o HexChars[(n % 16) + 1]

\* hex(n)
Hex(n) == "0x" \o HexDigits(n)

RECURSIVE BinDigits(_)
\* bin(n)[2:]
BinDigits(n) ==
    IF n < 2 THEN <<HexChars[n + 1]>>
    ELSE Append(BinDigits(n \div 2), HexChars[(n % 2) + 1])

\* hex(int(bin(classical_memory)[2:], 2))
MemoryWord(cmem) == Hex(IntOfDigits(BinDigits(cmem), 2, 0))

(***************************************************************************)
(* Probabilities are exact rationals <<n, d>> in lowest terms; d = 0 is    *)
(* nan.                                                                    *)
(***************************************************************************)
Rat(n, d) ==
    IF d = 0 THEN <<0, 0>>
    ELSE IF n = 0 THEN <<0, 1>>
    ELSE LET g == GCD(Abs(n), Abs(d)) IN <<n \div g, d \div g>>

IsNaN(p) == p[2] = 0
\* python's  p != 0  (nan != 0 is True)
NonZero(p) == IsNaN(p) \/ p[1] # 0
\* some u in [0,1) has u < p  (u < nan is False)
CanBeBelow(p) == ~IsNaN(p) /\ p[1] > 0
\* some u in [0,1) has not (u < p)
CanBeNotBelow(p) == IsNaN(p) \/ p[1] < p[2]

(***************************************************************************)
(* Statevector: amplitude of basis index i is vec[i] * sqrt(num/den).      *)
(* Qubit q is bit q of the index (axis n-1-q of the rank-n tensor).        *)
(***************************************************************************)
Dim(n) == Pow2(n)

RECURSIVE Pow10(_)
Pow10(k) == IF k = 0 THEN 1 ELSE 10 * Pow10(k - 1)

RECURSIVE VecGCD(_, _)
VecGCD(vec, k) ==
    IF k = 0 THEN Abs(vec[0]) ELSE GCD(Abs(vec[k]), VecGCD(vec, k - 1))

ZeroVec(n) == [i \in 0..(Dim(n) - 1) |-> 0]

\* canonical form of vec * sqrt(num/den)
MkSV(vec, num, den) ==
    LET top == Cardinality(DOMAIN vec) - 1
        g   == VecGCD(vec, top)
    IN  IF den = 0 THEN [vec |-> [i \in DOMAIN vec |-> 0], num |-> 0, den |-> 0]
        ELSE IF g = 0 \/ num = 0
             THEN [vec |-> [i \in DOMAIN vec |-> 0], num |-> 0, den |-> 1]
        ELSE LET r == Rat(num * g * g, den)
             IN  [vec |-> [i \in DOMAIN vec |-> vec[i] \div g],
                  num |-> r[1], den |-> r[2]]

\* self._statevector = 0 (before the first shot initialises it)
ScalarZero == [vec |-> <<>>, num |-> 0, den |-> 1]

RECURSIVE SumSq(_, _, _, _)
\* sum of vec[i]^2 over the indices up to k whose bit q is b
SumSq(vec, k, q, b) ==
    IF k < 0 THEN 0
    ELSE (IF BitAt(k, q) = b THEN vec[k] * vec[k] ELSE 0) + SumSq(vec, k - 1, q, b)

\* np.sum(np.abs(statevector) ** 2, axis = all but qubit's): <<p0, p1>>
Probabilities(sv, qubit) ==
    LET top == Cardinality(DOMAIN sv.vec) - 1
    IN  <<Rat(SumSq(sv.vec, top, qubit, 0) * sv.num, sv.den),
          Rat(SumSq(sv.vec, top, qubit, 1) * sv.num, sv.den)>>

(***************************************************************************)
(* Tensor engine.  A matrix is <<row0, row1>> of integers with the common  *)
(* factor sqrt(sn/sd).                                                     *)
(***************************************************************************)
\* np.einsum(indexes, gate_tensor, statevector) for a 1-qubit matrix
AddUnitarySingle(sv, gate, qubit) ==
    LET m == gate.m
        new == [i \in DOMAIN sv.vec |->
                   LET b  == BitAt(i, qubit)
                       i0 == i - b * Pow2(qubit)
                       i1 == i0 + Pow2(qubit)
                   IN  m[b + 1][1] * sv.vec[i0] + m[b + 1][2] * sv.vec[i1]]
    IN  IF sv.den = 0 \/ gate.sd = 0
        THEN MkSV(sv.vec, 0, 0)
        ELSE MkSV(new, sv.num * gate.sn, sv.den * gate.sd)

\* np.einsum(indexes, gate_tensor, statevector) for the CX matrix:
\* qubit0 is the control, qubit1 the target
AddUnitaryTwoCx(sv, qubit0, qubit1) ==
    LET new == [i \in DOMAIN sv.vec |->
                   IF BitAt(i, qubit0) = 1
                   THEN sv.vec[WriteBit(i, qubit1, 1 - BitAt(i, qubit1))]
                   ELSE sv.vec[i]]
    IN  IF sv.den = 0 THEN sv ELSE MkSV(new, sv.num, sv.den)

\* single_gate_matrix(name, params): U(theta, phi, lam) with the angles in
\* units of pi/2, theta in {0, 1, 2} and phi, lam in {0, 2}:
\*   [[cos(theta/2), -e^{i lam} sin(theta/2)],
\*    [e^{i phi} sin(theta/2), e^{i (phi + lam)} cos(theta/2)]]
SingleGateParams(name, params) ==
    IF name = "u1" THEN <<0, 0, params[1]>>
    ELSE IF name = "u2" THEN <<1, params[1], params[2]>>
    ELSE <<params[1], params[2], params[3]>>

Phase(a) == IF a = 0 THEN 1 ELSE -1

SingleGateMatrix(name, params) ==
    LET t   == SingleGateParams(name, params)
        c   == IF t[1] = 2 THEN 0 ELSE 1
        s   == IF t[1] = 0 THEN 0 ELSE 1
    IN  [m  |-> << <<c, -(Phase(t[3]) * s)>>,
                   <<Phase(t[2]) * s, Phase(t[2]) * Phase(t[3]) * c>> >>,
         sn |-> 1,
         sd |-> IF t[1] = 1 THEN 2 ELSE 1]

(***************************************************************************)
(* A simulator instance (the backend object, and each deep copy of it the  *)
(* split engine makes).  rng counts the values taken from _local_random    *)
(* since it was seeded.                                                    *)
(***************************************************************************)
\* DEFAULT_CONFIGURATION['n_qubits'] on a machine with enough memory
DefaultMaxQubits == 24

\* DEFAULT_OPTIONS['chop_threshold'] = 1e-15; a threshold <<n, e>> is
\* n * 10^(-e)
DefaultChopThreshold == <<1, 15>>

\* __init__; rng.seed = NoneV is a random source no seed() was called on
NewSimulator ==
    [sv |-> ScalarZero, cmem |-> 0, creg |-> 0,
     subs |-> <<>>, probs |-> <<>>,
     sample_measure |-> FALSE,
     initial_statevector |-> <<>>,
     chop_threshold |-> DefaultChopThreshold,
     max_qubits |-> DefaultMaxQubits,
     rng |-> [seed |-> NoneV, rand |-> 0, choice |-> 0]]

\* an options dict without a key: <<>> stands for a key that is not there
NoOptions == [initial_statevector |-> <<>>, chop_threshold |-> <<>>]

\* round(np.linalg.norm(statevector), 12) == 1, for the exact vectors here
Normalized(statevector) ==
    LET top == Cardinality(DOMAIN statevector.vec) - 1
    IN  /\ statevector.den # 0
        /\ (SumSq(statevector.vec, top, 0, 0) + SumSq(statevector.vec, top, 0, 1))
              * statevector.num = statevector.den

\* the initial_statevector _set_options stores: backend_options first, then
\* the qobj config, else the default None
OptionInitialStatevector(qobj_config, options) ==
    IF options.initial_statevector # <<>> THEN options.initial_statevector
    ELSE qobj_config.initial_statevector

\* _set_options raises 'initial statevector is not normalized'
SetOptionsRaises(qobj_config, options) ==
    LET v == OptionInitialStatevector(qobj_config, options)
    IN  v # <<>> /\ ~Normalized(v[1])

\* _set_options: both options are reset to DEFAULT_OPTIONS, then taken from
\* backend_options or else from the qobj config; when the norm check raises,
\* chop_threshold is left at its default
SetOptions(self, qobj_config, options) ==
    [self EXCEPT
        !.initial_statevector = OptionInitialStatevector(qobj_config, options),
        !.chop_threshold =
            IF SetOptionsRaises(qobj_config, options) THEN DefaultChopThreshold
            ELSE IF options.chop_threshold # <<>> THEN options.chop_threshold[1]
            ELSE IF qobj_config.chop_threshold # <<>> THEN qobj_config.chop_threshold[1]
            ELSE DefaultChopThreshold]

\* abs(amplitude of basis index i) < threshold.  The nonzero amplitudes of
\* the runs modelled here are far above 10^(-3), so that a threshold with
\* e > 2 is below all of them; nan < threshold is False.
BelowThreshold(sv, i, threshold) ==
    /\ sv.den # 0
    /\ IF threshold[2] > 2 THEN sv.vec[i] = 0 \/ sv.num = 0
       ELSE sv.vec[i] * sv.vec[i] * sv.num * Pow10(2 * threshold[2])
               < threshold[1] * threshold[1] * sv.den

\* _get_statevector: vec[abs(vec) < self._chop_threshold] = 0.0
GetStatevector(self) ==
    IF self.sv.vec = <<>> THEN self.sv
    ELSE MkSV([i \in DOMAIN self.sv.vec |->
                  IF BelowThreshold(self.sv, i, self.chop_threshold) THEN 0
                  ELSE self.sv.vec[i]],
              self.sv.num, self.sv.den)

(***************************************************************************)
(* Measurement kernel.                                                     *)
(***************************************************************************)
\* _get_measure_outcome: the set of (outcome, probability, simulator after
\* the draw) the random number can give
GetMeasureOutcome(self, qubit) ==
    LET p    == Probabilities(self.sv, qubit)
        next == [self EXCEPT !.rng.rand = @ + 1]
    IN  {[outcome |-> 0, probability |-> p[1], self |-> next] :
            x \in IF CanBeBelow(p[1]) THEN {0} ELSE {}}
        \cup
        {[outcome |-> 1, probability |-> p[2], self |-> next] :
            x \in IF CanBeNotBelow(p[1]) THEN {1} ELSE {}}

\* the matrix with 1/sqrt(probability) at <<row, col>> and 0 elsewhere
ScaledUnit(row, col, probability) ==
    [m  |-> [r \in 1..2 |-> [c \in 1..2 |-> IF r = row /\ c = col THEN 1 ELSE 0]],
     sn |-> probability[2],
     sd |-> probability[1]]

\* a deviating variant, not the code: the outcome replaces the whole memory
UpdateStateAfterMeasureWholeWord(self, qubit, cmembit, outcome, probability, cregbit) ==
    [self EXCEPT
        !.cmem = outcome * Pow2(cmembit),
        !.creg = IF cregbit # NoneV THEN WriteBit(@, cregbit, outcome) ELSE @,
        !.sv   = AddUnitarySingle(@, ScaledUnit(outcome + 1, outcome + 1, probability),
                                  qubit)]

\* _update_state_after_measure
UpdateStateAfterMeasure(self, qubit, cmembit, outcome, probability, cregbit) ==
    [self EXCEPT
        !.cmem = WriteBit(@, cmembit, outcome),
        !.creg = IF cregbit # NoneV THEN WriteBit(@, cregbit, outcome) ELSE @,
        !.sv   = AddUnitarySingle(@, ScaledUnit(outcome + 1, outcome + 1, probability),
                                  qubit)]

\* _get_single_outcome
GetSingleOutcome(self, qubit, wanted_state) ==
    [outcome |-> wanted_state,
     probability |-> Probabilities(self.sv, qubit)[wanted_state + 1]]

SplitStatevector(self, qubit, probabilities, cmembit, cregbit) ==
    LET o0   == GetSingleOutcome(self, qubit, 0)
        o1   == GetSingleOutcome(self, qubit, 1)
        temp == self
        subs == Append(Append(self.subs, temp), temp)
        prbs == Append(Append(self.probs, probabilities[1]), probabilities[2])
        s0   == UpdateStateAfterMeasure(subs[1], qubit, cmembit,
                                        o0.outcome, o0.probability, cregbit)
        s1   == UpdateStateAfterMeasure(subs[2], qubit, cmembit,
                                        o1.outcome, o1.probability, cregbit)
    IN  [self EXCEPT !.subs = [[subs EXCEPT ![1] = s0] EXCEPT ![2] = s1],
                     !.probs = prbs]

\* the condition of the fork in _add_qasm_measure
SplitCondition(split, probabilities) ==
    split /\ NonZero(probabilities[1]) /\ NonZero(probabilities[2])

\* _add_qasm_measure: the set of simulators it can leave
AddQasmMeasure(self, qubit, cmembit, cregbit, split) ==
    LET probabilities == Probabilities(self.sv, qubit)
    IN  IF SplitCondition(split, probabilities)
        THEN {SplitStatevector(self, qubit, probabilities, cmembit, cregbit)}
        ELSE {UpdateStateAfterMeasure(o.self, qubit, cmembit,
                                      o.outcome, o.probability, cregbit) :
                 o \in GetMeasureOutcome(self, qubit)}

\* a deviating variant, not the code: the reset keeps the random source
\* where it was
AddQasmResetWithoutDraw(self, qubit) ==
    {[self EXCEPT
        !.sv = AddUnitarySingle(@, ScaledUnit(1, o.outcome + 1, o.probability), qubit)] :
        o \in GetMeasureOutcome(self, qubit)}

\* _add_qasm_reset
AddQasmReset(self, qubit) ==
    {[o.self EXCEPT
        !.sv = AddUnitarySingle(@, ScaledUnit(1, o.outcome + 1, o.probability), qubit)] :
        o \in GetMeasureOutcome(self, qubit)}

(***************************************************************************)
(* Instructions of an experiment.  Every field is present; NoneV, <<>> or  *)
(* "" stands for an attribute the qobj instruction does not have.          *)
(***************************************************************************)
NoCond == [kind |-> "none", bit |-> NoneV, mask |-> <<>>, val |-> <<>>]
CondBit(b) == [kind |-> "int", bit |-> b, mask |-> <<>>, val |-> <<>>]
CondMask(mask, val) == [kind |-> "mask", bit |-> NoneV, mask |-> mask, val |-> val]

Op(name, qubits, params) ==
    [name |-> name, qubits |-> qubits, params |-> params,
     memory |-> NoneV, register |-> NoneV, conditional |-> NoCond,
     mask |-> <<>>, relation |-> "", val |-> <<>>]

Measure(qubit, cmembit, cregbit) ==
    [Op("measure", <<qubit>>, <<>>) EXCEPT !.memory = cmembit, !.register = cregbit]

Bfunc(mask, relation, val, cregbit, cmembit) ==
    [Op("bfunc", <<>>, <<>>) EXCEPT !.mask = mask, !.relation = relation,
                                   !.val = val, !.register = cregbit,
                                   !.memory = cmembit]

WithCond(ins, conditional) == [ins EXCEPT !.conditional = conditional]

(***************************************************************************)
(* Instruction dispatcher: one pass of the loop body of _run_single_shot.  *)
(* A result is the simulator after the instruction, the pairs appended to  *)
(* measure_sample_ops, whether the loop breaks, and the error raised.      *)
(***************************************************************************)
Res(self) == [self |-> self, rec |-> <<>>, brk |-> FALSE, err |-> "", skipped |-> FALSE]

RECURSIVE ShiftToLowestBit(_, _)
\* while (mask & 0x1) == 0: mask >>= 1; value >>= 1
ShiftToLowestBit(mask, value) ==
    IF mask % 2 = 0 THEN ShiftToLowestBit(mask \div 2, value \div 2) ELSE value

\* a deviating variant, not the code: the integer conditional tests the classical memory
ConditionalSkipsOnMemory(self, conditional) ==
    IF conditional.kind = "int"
    THEN BitAt(self.cmem, conditional.bit) = 0
    ELSE IF conditional.kind = "mask"
    THEN LET mask == IntHex(conditional.mask)
         IN  /\ mask > 0
             /\ ShiftToLowestBit(mask, BitAnd(self.cmem, mask)) # IntHex(conditional.val)
    ELSE FALSE

\* a deviating variant, not the code: the masked value is compared without the shift to bit 0
ConditionalSkipsUnshifted(self, conditional) ==
    IF conditional.kind = "int"
    THEN BitAt(self.creg, conditional.bit) = 0
    ELSE IF conditional.kind = "mask"
    THEN LET mask == IntHex(conditional.mask)
         IN  /\ mask > 0
             /\ BitAnd(self.cmem, mask) # IntHex(conditional.val)
    ELSE FALSE

\* a deviating variant, not the code: an empty mask is compared as well, its masked value being 0
ConditionalSkipsEmptyMask(self, conditional) ==
    IF conditional.kind = "int"
    THEN BitAt(self.creg, conditional.bit) = 0
    ELSE IF conditional.kind = "mask"
    THEN LET mask == IntHex(conditional.mask)
         IN  IF mask > 0
             THEN ShiftToLowestBit(mask, BitAnd(self.cmem, mask)) # IntHex(conditional.val)
             ELSE 0 # IntHex(conditional.val)
    ELSE FALSE

\* the two `continue` of the loop: TRUE when the instruction is skipped
ConditionalSkips(self, conditional) ==
    IF conditional.kind = "int"
    THEN BitAt(self.creg, conditional.bit) = 0
    ELSE IF conditional.kind = "mask"
    THEN LET mask == IntHex(conditional.mask)
         IN  /\ mask > 0
             /\ ShiftToLowestBit(mask, BitAnd(self.cmem, mask)) # IntHex(conditional.val)
    ELSE FALSE

\* the value the relation of a bfunc is applied to
BfuncCompared(self, mask, val) == BitAnd(self.creg, mask) - val

Relations == {"==", "!=", "<", "<=", ">", ">="}

BfuncOutcome(relation, compared) ==
    IF relation = "==" THEN compared = 0
    ELSE IF relation = "!=" THEN compared # 0
    ELSE IF relation = "<" THEN compared < 0
    ELSE IF relation = "<=" THEN compared <= 0
    ELSE IF relation = ">" THEN compared > 0
    ELSE compared >= 0

BoolToInt(b) == IF b THEN 1 ELSE 0

\* a deviating variant, not the code: the outcome replaces the whole register
ExecBfuncWholeRegister(self, ins) ==
    LET mask     == IntHex(ins.mask)
        val      == IntHex(ins.val)
        compared == BfuncCompared(self, mask, val)
        outcome  == BoolToInt(BfuncOutcome(ins.relation, compared))
    IN  IF ins.relation \notin Relations
        THEN {[Res(self) EXCEPT !.err = "Invalid boolean function relation."]}
        ELSE {Res([self EXCEPT
                 !.creg = outcome * Pow2(ins.register),
                 !.cmem = IF ins.memory # NoneV
                          THEN WriteBit(@, ins.memory, outcome) ELSE @])}

\* the bfunc branch of the chain
ExecBfunc(self, ins) ==
    LET mask     == IntHex(ins.mask)
        val      == IntHex(ins.val)
        compared == BfuncCompared(self, mask, val)
        outcome  == BoolToInt(BfuncOutcome(ins.relation, compared))
    IN  IF ins.relation \notin Relations
        THEN {[Res(self) EXCEPT !.err = "Invalid boolean function relation."]}
        ELSE {Res([self EXCEPT
                 !.creg = WriteBit(@, ins.register, outcome),
                 !.cmem = IF ins.memory # NoneV
                          THEN WriteBit(@, ins.memory, outcome) ELSE @])}

ExecMeasure(self, ins, split) ==
    IF self.sample_measure
    THEN {[Res(self) EXCEPT !.rec = <<<<ins.qubits[1], ins.memory>>>>,
                            !.brk = split /\ self.subs # <<>>]}
    ELSE {[Res(s) EXCEPT !.brk = split /\ s.subs # <<>>] :
             s \in AddQasmMeasure(self, ins.qubits[1], ins.memory, ins.register, split)}

\* a deviating variant, not the code: a name the chain does not know is passed over like a barrier
ExecuteLenient(self, ins, split) ==
    IF ins.name \in {"U", "u1", "u2", "u3"}
    THEN {Res([self EXCEPT !.sv = AddUnitarySingle(@,
                  SingleGateMatrix(ins.name, ins.params), ins.qubits[1])])}
    ELSE IF ins.name \in {"CX", "cx"}
    THEN {Res([self EXCEPT !.sv = AddUnitaryTwoCx(@, ins.qubits[1], ins.qubits[2])])}
    ELSE IF ins.name = "reset"
    THEN {Res(s) : s \in AddQasmReset(self, ins.qubits[1])}
    ELSE IF ins.name = "measure" THEN ExecMeasure(self, ins, split)
    ELSE IF ins.name = "bfunc" THEN ExecBfunc(self, ins)
    ELSE {Res(self)}

\* the if/elif chain on operation.name
Execute(self, ins, split) ==
    IF ins.name \in {"U", "u1", "u2", "u3"}
    THEN {Res([self EXCEPT !.sv = AddUnitarySingle(@,
                  SingleGateMatrix(ins.name, ins.params), ins.qubits[1])])}
    ELSE IF ins.name \in {"id", "u0"} THEN {Res(self)}
    ELSE IF ins.name \in {"CX", "cx"}
    THEN {Res([self EXCEPT !.sv = AddUnitaryTwoCx(@, ins.qubits[1], ins.qubits[2])])}
    ELSE IF ins.name = "reset"
    THEN {Res(s) : s \in AddQasmReset(self, ins.qubits[1])}
    ELSE IF ins.name = "barrier" THEN {Res(self)}
    ELSE IF ins.name = "measure" THEN ExecMeasure(self, ins, split)
    ELSE IF ins.name = "bfunc" THEN ExecBfunc(self, ins)
    ELSE {[Res(self) EXCEPT !.err = "unrecognized operation"]}

Dispatch(self, ins, split) ==
    IF ConditionalSkips(self, ins.conditional)
    THEN {[Res(self) EXCEPT !.skipped = TRUE]}
    ELSE Execute(self, ins, split)

(***************************************************************************)
(* Sampling optimiser.                                                     *)
(***************************************************************************)
RECURSIVE ScanSamplingMeasuresOnly(_, _)
\* a deviating variant, not the code: after the first measure only measures are allowed
ScanSamplingMeasuresOnly(instructions, measure_flag) ==
    IF instructions = <<>> THEN TRUE
    ELSE LET name == Head(instructions).name
         IN  IF name = "reset" THEN FALSE
             ELSE IF measure_flag
             THEN IF name # "measure"
                  THEN FALSE
                  ELSE ScanSamplingMeasuresOnly(Tail(instructions), TRUE)
             ELSE ScanSamplingMeasuresOnly(Tail(instructions), name = "measure")

RECURSIVE ScanSampling(_, _)
\* the loop of _validate_measure_sampling over the instruction names
ScanSampling(instructions, measure_flag) ==
    IF instructions = <<>> THEN TRUE
    ELSE LET name == Head(instructions).name
         IN  IF name = "reset" THEN FALSE
             ELSE IF measure_flag
             THEN IF name \notin {"measure", "barrier", "id", "u0"}
                  THEN FALSE
                  ELSE ScanSampling(Tail(instructions), TRUE)
             ELSE ScanSampling(Tail(instructions), name = "measure")

ValidateMeasureSampling(shots, experiment) ==
    IF shots <= 1 THEN FALSE
    ELSE IF experiment.has_allows THEN experiment.allows_measure_sampling
    ELSE ScanSampling(experiment.instructions, FALSE)

(***************************************************************************)
(* _add_sample_measure                                                     *)
(***************************************************************************)
PairLess(a, b) == a[1] < b[1] \/ (a[1] = b[1] /\ a[2] < b[2])

RECURSIVE Sorted(_)
\* sorted(measure_params)
Sorted(seq) ==
    IF seq = <<>> THEN <<>>
    ELSE LET k == CHOOSE k \in 1..Len(seq) :
                     \A j \in 1..Len(seq) :
                        ~PairLess(seq[j], seq[k]) /\ (seq[j] = seq[k] => k <= j)
             rest == SubSeq(seq, 1, k - 1) \o SubSeq(seq, k + 1, Len(seq))
         IN  <<seq[k]>> \o Sorted(rest)

MeasuredQubits(measure_params) == {measure_params[j][1] : j \in 1..Len(measure_params)}

RECURSIVE AscendingSeq(_)
AscendingSeq(set) ==
    IF set = {} THEN <<>>
    ELSE LET lo == CHOOSE x \in set : \A y \in set : x <= y
         IN  <<lo>> \o AscendingSeq(set \ {lo})

\* the flattened marginal: sum of |amp|^2 over the indices whose measured
\* qubits spell `sample` (the smallest measured qubit is bit 0)
SampleProbability(sv, measured, sample) ==
    LET hit(i) == \A j \in 1..Len(measured) : BitAt(i, measured[j]) = BitAt(sample, j - 1)
        RECURSIVE Sum(_)
        Sum(k) == IF k < 0 THEN 0
                  ELSE (IF hit(k) THEN sv.vec[k] * sv.vec[k] ELSE 0) + Sum(k - 1)
    IN  Rat(Sum(Cardinality(DOMAIN sv.vec) - 1) * sv.num, sv.den)

RECURSIVE ExpandSample(_, _, _, _)
\* the inner loop over enumerate(sorted(measure_params))
ExpandSample(classical_memory, params, count, sample) ==
    IF params = <<>> THEN classical_memory
    ELSE ExpandSample(WriteBit(classical_memory, Head(params)[2], BitAt(sample, count)),
                      Tail(params), count + 1, sample)

\* the samples np.random.choice can return: those of nonzero probability
SampleSupport(self, measure_params) ==
    LET measured == AscendingSeq(MeasuredQubits(measure_params))
    IN  {s \in 0..(Pow2(Len(measured)) - 1) :
            SampleProbability(self.sv, measured, s)[1] > 0}

\* np.random.choice raises ValueError unless the probabilities sum to 1
SampleError(self, measure_params) ==
    LET measured == AscendingSeq(MeasuredQubits(measure_params))
        RECURSIVE Total(_)
        Total(s) == IF s < 0 THEN <<0, 1>>
                    ELSE LET p == SampleProbability(self.sv, measured, s)
                             t == Total(s - 1)
                         IN  Rat(p[1] * t[2] + t[1] * p[2], p[2] * t[2])
    IN  Total(Pow2(Len(measured)) - 1) # <<1, 1>>

\* the memory lists _add_sample_measure can return
AddSampleMeasure(self, measure_params, num_samples) ==
    LET support == SampleSupport(self, measure_params)
        ordered == Sorted(measure_params)
    IN  {[j \in 1..num_samples |->
            MemoryWord(ExpandSample(self.cmem, ordered, 0, samples[j]))] :
         samples \in [1..num_samples -> support]}

(***************************************************************************)
(* State.                                                                  *)
(*   qobj     the job: its experiments, config.shots, config.memory and    *)
(*            the class flag SPLIT_STATES of the backend that runs it      *)
(*   sim      the backend instance, with the tree of its split children    *)
(*   expIdx   the experiment _run_job is at (1-based)                      *)
(*   pc       idle: before run_experiment; shots: in its loop over shots;  *)
(*            run: inside _run_single_shot; done; error: an exception      *)
(*   shot     shots run so far in this experiment                          *)
(*   stack    the activations of _run_single_shot, innermost last          *)
(*   memory   the list `memory` of run_experiment                          *)
(*   measure_sample_ops  the list of (qubit, cmembit) pairs                *)
(*   results  result_list of _run_job: the data of each experiment         *)
(*   last     the last pass of the dispatcher loop (for the properties)    *)
(*   visits   how often each instruction was reached in this experiment    *)
(*   log      what the current shot has done so far, in order: the passes  *)
(*            of the dispatcher loop and the appends to the memory list,   *)
(*            each with the path of the simulator that did it              *)
(*   draws    for every run_experiment call so far, the calls it made to   *)
(*            the random source, in order: the state the call was made on  *)
(*            and what came of the values it returned                      *)
(*   forked   the simulators (by path) that forked during the current      *)
(*            run_experiment call                                          *)
(***************************************************************************)
VARIABLES qobj, sim, expIdx, pc, shot, stack, memory, measure_sample_ops,
          results, last, visits, log, draws,
          backend_options, seed_simulator, later, returned,
          result, reply, forked

vars == <<qobj, sim, expIdx, pc, shot, stack, memory, measure_sample_ops,
          results, last, visits, log, draws,
          backend_options, seed_simulator, later, returned, result, reply, forked>>

Experiment == qobj.experiments[expIdx]
Instructions == Experiment.instructions

RECURSIVE NodeAt(_, _)
\* the simulator reached from `node` through _substates[path[1] - 1], ...
NodeAt(node, path) ==
    IF path = <<>> THEN node ELSE NodeAt(node.subs[Head(path)], Tail(path))

RECURSIVE SetAtSharedRandom(_, _, _)
\* a deviating variant, not the code: the children draw from the random source
\* of the simulator they were forked from instead of from their own copy
SetAtSharedRandom(node, path, new) ==
    IF path = <<>> THEN new
    ELSE [[node EXCEPT !.subs[Head(path)] = SetAtSharedRandom(@, Tail(path), new)]
             EXCEPT !.rng = new.rng]

RECURSIVE SetAt(_, _, _)
\* the tree after the simulator at `path`, a deep copy with nothing shared,
\* has become `new`
SetAt(node, path, new) ==
    IF path = <<>> THEN new
    ELSE [node EXCEPT !.subs[Head(path)] = SetAt(@, Tail(path), new)]

\* _initialize_statevector with no initial_statevector configured
InitialStatevector(n) == MkSV([i \in 0..(Dim(n) - 1) |-> IF i = 0 THEN 1 ELSE 0], 1, 1)

\* a deviating variant, not the code: the configured vector is not copied,
\* so that the writes of a shot land in the stored option
InitializeStatevectorAliased(self, n) ==
    IF self.initial_statevector = <<>>
    THEN InitialStatevector(n)
    ELSE IF self.sv = ScalarZero THEN self.initial_statevector[1] ELSE self.sv

\* _initialize_statevector: a copy of the configured vector, or |0...0>
InitializeStatevector(self, n) ==
    IF self.initial_statevector = <<>>
    THEN InitialStatevector(n)
    ELSE self.initial_statevector[1]

\* `shots` of run_experiment
EffectiveShots == IF sim.sample_measure THEN 1 ELSE qobj.shots

\* a deviating variant, not the code: the two children are taken in the
\* opposite order
NewFrameSwapped(path, op_idx) ==
    [path |-> [j \in 1..Len(path) |->
                  IF j = Len(path) THEN 3 - path[j] ELSE path[j]],
     i |-> op_idx, last |-> 0,
     ph |-> IF op_idx > Len(qobj.experiments[expIdx].instructions)
            THEN "after" ELSE "loop"]

\* a call _run_single_shot(..., op_idx): `last` is python's loop variable i
\* (0: not bound yet); instructions are numbered from 1
NewFrame(path, op_idx) ==
    [path |-> path, i |-> op_idx, last |-> 0,
     ph |-> IF op_idx > Len(Instructions) THEN "after" ELSE "loop"]

Top == stack[Len(stack)]
SetTop(frame) == [stack EXCEPT ![Len(stack)] = frame]
HasChildren(node) == qobj.split /\ node.subs # <<>>

NoLast == [idx |-> 0, path |-> <<>>, pre |-> NewSimulator, res |-> Res(NewSimulator)]

\* the class flag SHOW_FINAL_STATE of the backend that runs the qobj: the
\* split simulator exposes its final state, the qasm simulator does not
ShowFinalState == qobj.split

RECURSIVE GenerateData(_)
\* _generate_data: the binary tree of a node and its first two children
GenerateData(self) ==
    IF self.subs # <<>>
    THEN [value |-> GetStatevector(self),
          path_0 |-> GenerateData(self.subs[1]),
          path_0_probability |-> self.probs[1],
          path_1 |-> GenerateData(self.subs[2]),
          path_1_probability |-> self.probs[2]]
    ELSE [value |-> GetStatevector(self)]

\* a deviating variant, not the code: every word that occurs is counted once
CounterOfDistinct(mem) ==
    [w \in {mem[j] : j \in 1..Len(mem)} |-> 1]

\* dict(Counter(memory))
Counter(mem) ==
    [w \in {mem[j] : j \in 1..Len(mem)} |-> Cardinality({j \in 1..Len(mem) : mem[j] = w})]

\* `data` of run_experiment; <<>> stands for a key that is not there
Data(mem) ==
    [counts |-> Counter(mem),
     memory |-> IF qobj.memory THEN mem ELSE <<>>,
     statevector |-> IF ShowFinalState THEN <<GetStatevector(sim)>> ELSE <<>>,
     statevector_tree |-> IF ShowFinalState /\ qobj.split
                          THEN <<GenerateData(sim)>> ELSE <<>>]

\* `draws` after one more call to the random source in this run_experiment:
\* rand() or choice() on simulator `before`, leaving simulator `after` and,
\* for the batch that run_experiment keeps, the memory words `words`
Drawn(kind, before, after, words) ==
    [draws EXCEPT ![Len(draws)] =
        Append(@, [kind |-> kind,
                   before |-> <<before.sv, before.cmem, before.creg>>,
                   after |-> <<after.sv, after.cmem, after.creg>>,
                   words |-> words])]

\* the largest seed np.random.randint(2147483647, dtype='int32') returns
MaxRandomSeed == 2147483646

\* the values taken here for a seed drawn at random
RandomSeeds == {0, MaxRandomSeed}

\* a deviating variant, not the code: the qobj config is asked before the
\* experiment config
ResolvedSeedsJobFirst(experiment, qobj_config) ==
    IF qobj_config.seed_simulator # <<>> THEN {qobj_config.seed_simulator[1]}
    ELSE IF experiment.seed_simulator # <<>> THEN {experiment.seed_simulator[1]}
    ELSE RandomSeeds

\* the seed of run_experiment: experiment config, then qobj config, then
\* random; <<>> stands for a config without seed_simulator
ResolvedSeeds(experiment, qobj_config) ==
    IF experiment.seed_simulator # <<>> THEN {experiment.seed_simulator[1]}
    ELSE IF qobj_config.seed_simulator # <<>> THEN {qobj_config.seed_simulator[1]}
    ELSE RandomSeeds

\* _validate_initial_statevector raises 'initial statevector is incorrect
\* length'
ValidateInitialStatevectorRaises(self, n) ==
    /\ self.initial_statevector # <<>>
    /\ Cardinality(DOMAIN self.initial_statevector[1].vec) # Dim(n)

\* the dict run_experiment returns
ExperimentResult(mem) ==
    [seed_simulator |-> seed_simulator, shots |-> qobj.shots, data |-> Data(mem)]

\* run(): _set_options, then _run_job up to its loop over the experiments
\* (_validate)
Run ==
    /\ pc = "call"
    /\ sim' = SetOptions(sim, qobj, backend_options)
    /\ pc' = IF SetOptionsRaises(qobj, backend_options) \/ qobj.n_qubits > sim.max_qubits
             THEN "rejected" ELSE "idle"
    /\ UNCHANGED <<qobj, expIdx, shot, stack, memory, measure_sample_ops, results,
                   last, visits, log, draws, backend_options, seed_simulator,
                   later, returned, result, reply, forked>>

\* the caller goes on to its next run() call, on the same backend or on a
\* newly constructed one; `returned` keeps what the call before gave
NextCall ==
    /\ pc \in {"done", "error", "rejected"}
    /\ later # <<>>
    /\ returned' = Append(returned, [qobj |-> qobj, status |-> pc, results |-> results,
                                     draws |-> draws, sim |-> sim])
    /\ qobj' = Head(later).qobj
    /\ backend_options' = Head(later).backend_options
    /\ later' = Tail(later)
    /\ sim' = IF Head(later).new_backend
              THEN [NewSimulator EXCEPT !.max_qubits = sim.max_qubits]
              ELSE sim
    /\ expIdx' = 1
    /\ pc' = "call"
    /\ shot' = 0
    /\ stack' = <<>>
    /\ memory' = <<>>
    /\ measure_sample_ops' = <<>>
    /\ results' = <<>>
    /\ last' = NoLast
    /\ visits' = <<>>
    /\ log' = <<>>
    /\ draws' = <<>>
    /\ seed_simulator' = NoneV
    /\ forked' = {}
    /\ UNCHANGED <<result, reply>>

\* run_experiment up to its loop over the shots
StartExperiment ==
    /\ pc = "idle"
    /\ IF ValidateInitialStatevectorRaises(sim, Experiment.n_qubits)
       THEN /\ sim' = [sim EXCEPT !.sv = ScalarZero, !.cmem = 0, !.creg = 0,
                                  !.sample_measure = FALSE]
            /\ pc' = "rejected"
            /\ UNCHANGED <<seed_simulator, draws>>
       ELSE \E seed \in ResolvedSeeds(Experiment, qobj) :
            /\ seed_simulator' = seed
            /\ sim' = [sim EXCEPT !.sv = ScalarZero, !.cmem = 0, !.creg = 0,
                                  !.rng = [seed |-> seed, rand |-> 0, choice |-> 0],
                                  !.sample_measure =
                                      ValidateMeasureSampling(qobj.shots, Experiment)]
            /\ draws' = Append(draws, <<>>)
            /\ pc' = "shots"
    /\ memory' = <<>>
    /\ measure_sample_ops' = <<>>
    /\ shot' = 0
    /\ visits' = [j \in 1..Len(Instructions) |-> 0]
    /\ log' = <<>>
    /\ last' = NoLast
    /\ forked' = {}
    /\ UNCHANGED <<qobj, expIdx, stack, results, backend_options, later, returned, result, reply>>

\* the head of one iteration of `for _ in range(shots)`
BeginShot ==
    /\ pc = "shots"
    /\ shot < EffectiveShots
    /\ sim' = [sim EXCEPT !.sv = InitializeStatevector(sim, Experiment.n_qubits),
                          !.cmem = 0, !.creg = 0]
    /\ stack' = <<NewFrame(<<>>, 1)>>
    /\ pc' = "run"
    /\ log' = <<>>
    /\ UNCHANGED <<qobj, expIdx, shot, memory, measure_sample_ops, results,
                   last, visits, draws>>
    /\ UNCHANGED <<backend_options, seed_simulator, later, returned, result, reply, forked>>

\* one pass of the loop of _run_single_shot
DispatchStep ==
    /\ pc = "run"
    /\ Top.ph = "loop"
    /\ LET self == NodeAt(sim, Top.path)
           ins  == Instructions[Top.i]
       IN  \E r \in Dispatch(self, ins, qobj.split) :
              /\ last' = [idx |-> Top.i, path |-> Top.path, pre |-> self, res |-> r]
              /\ visits' = [visits EXCEPT ![Top.i] = @ + 1]
              /\ log' = Append(log, [ev |-> "pass", path |-> Top.path, idx |-> Top.i])
              /\ draws' = IF r.self.rng = self.rng THEN draws
                           ELSE Drawn("rand", self, r.self, <<>>)
              /\ forked' = IF Len(r.self.subs) > Len(self.subs)
                            THEN forked \cup {Top.path} ELSE forked
              /\ IF r.err # ""
                 THEN /\ pc' = "error"
                      /\ UNCHANGED <<sim, stack, measure_sample_ops>>
                 ELSE /\ pc' = pc
                      /\ sim' = SetAt(sim, Top.path, r.self)
                      /\ measure_sample_ops' = measure_sample_ops \o r.rec
                      /\ stack' = SetTop(
                            IF r.brk \/ Top.i = Len(Instructions)
                            THEN [Top EXCEPT !.last = Top.i, !.ph = "after"]
                            ELSE [Top EXCEPT !.last = Top.i, !.i = Top.i + 1])
    /\ UNCHANGED <<qobj, expIdx, shot, memory, results>>
    /\ UNCHANGED <<backend_options, seed_simulator, later, returned, result, reply>>

\* self._substates[0]._run_single_shot(..., op_idx=i + 1)
CallChild0 ==
    /\ pc = "run"
    /\ Top.ph = "after"
    /\ HasChildren(NodeAt(sim, Top.path))
    /\ Top.last # 0
    /\ stack' = Append(SetTop([Top EXCEPT !.ph = "kid1"]),
                       NewFrame(Append(Top.path, 1), Top.last + 1))
    /\ UNCHANGED <<qobj, sim, expIdx, pc, shot, memory, measure_sample_ops,
                   results, last, visits, log, draws>>
    /\ UNCHANGED <<backend_options, seed_simulator, later, returned, result, reply, forked>>

\* the same call when the loop ran no pass: i is not bound (UnboundLocalError)
CallChildUnbound ==
    /\ pc = "run"
    /\ Top.ph = "after"
    /\ HasChildren(NodeAt(sim, Top.path))
    /\ Top.last = 0
    /\ pc' = "error"
    /\ UNCHANGED <<qobj, sim, expIdx, shot, stack, memory, measure_sample_ops,
                   results, last, visits, log, draws>>
    /\ UNCHANGED <<backend_options, seed_simulator, later, returned, result, reply, forked>>

\* self._substates[1]._run_single_shot(..., op_idx=i + 1)
CallChild1 ==
    /\ pc = "run"
    /\ Top.ph = "kid1"
    /\ stack' = Append(SetTop([Top EXCEPT !.ph = "tail"]),
                       NewFrame(Append(Top.path, 2), Top.last + 1))
    /\ UNCHANGED <<qobj, sim, expIdx, pc, shot, memory, measure_sample_ops,
                   results, last, visits, log, draws>>
    /\ UNCHANGED <<backend_options, seed_simulator, later, returned, result, reply, forked>>

\* the end of _run_single_shot ("Add final creg data to memory list") and
\* its return
FinishShot ==
    /\ pc = "run"
    /\ \/ Top.ph = "tail"
       \/ Top.ph = "after" /\ ~HasChildren(NodeAt(sim, Top.path))
    /\ LET self == NodeAt(sim, Top.path)
           rest == SubSeq(stack, 1, Len(stack) - 1)
           raises == /\ Experiment.memory_slots > 0
                     /\ self.sample_measure
                     /\ SampleError(self, measure_sample_ops)
       IN  /\ IF Experiment.memory_slots > 0
              THEN IF self.sample_measure
                   THEN /\ sim' = IF raises THEN sim
                                  ELSE SetAt(sim, Top.path,
                                             [self EXCEPT !.rng.choice = @ + 1])
                        /\ memory' = memory
                        /\ log' = log
                        /\ draws' = IF raises THEN draws
                                     ELSE Drawn("choice", self, self, <<>>)
                   ELSE /\ memory' = Append(memory, MemoryWord(self.cmem))
                        /\ sim' = sim
                        /\ log' = Append(log, [ev |-> "append", path |-> Top.path,
                                               idx |-> Len(memory) + 1])
                        /\ draws' = draws
              ELSE UNCHANGED <<sim, memory, log, draws>>
           /\ IF raises
              THEN pc' = "error" /\ UNCHANGED <<stack, shot>>
              ELSE /\ stack' = rest
                   /\ pc' = IF rest = <<>> THEN "shots" ELSE "run"
                   /\ shot' = IF rest = <<>> THEN shot + 1 ELSE shot
    /\ UNCHANGED <<qobj, expIdx, measure_sample_ops, results, last, visits>>
    /\ UNCHANGED <<backend_options, seed_simulator, later, returned, result, reply, forked>>

\* run_experiment after its loop over the shots
FinishExperiment ==
    /\ pc = "shots"
    /\ shot = EffectiveShots
    /\ IF Experiment.memory_slots > 0 /\ sim.sample_measure
       THEN IF SampleError(sim, measure_sample_ops)
            THEN pc' = "error" /\ UNCHANGED <<sim, memory, results, expIdx, draws>>
            ELSE \E mem \in AddSampleMeasure(sim, measure_sample_ops, qobj.shots) :
                    /\ memory' = mem
                    /\ sim' = [sim EXCEPT !.rng.choice = @ + 1]
                    /\ draws' = Drawn("choice", sim, sim, mem)
                    /\ results' = Append(results, ExperimentResult(mem))
                    /\ expIdx' = IF expIdx < Len(qobj.experiments)
                                 THEN expIdx + 1 ELSE expIdx
                    /\ pc' = IF expIdx < Len(qobj.experiments) THEN "idle" ELSE "done"
       ELSE /\ results' = Append(results, ExperimentResult(memory))
            /\ expIdx' = IF expIdx < Len(qobj.experiments) THEN expIdx + 1 ELSE expIdx
            /\ pc' = IF expIdx < Len(qobj.experiments) THEN "idle" ELSE "done"
            /\ UNCHANGED <<sim, memory, draws>>
    /\ UNCHANGED <<qobj, shot, stack, measure_sample_ops, last, visits, log>>
    /\ UNCHANGED <<backend_options, seed_simulator, later, returned, result, reply, forked>>

Next ==
    \/ Run
    \/ NextCall
    \/ StartExperiment
    \/ BeginShot
    \/ DispatchStep
    \/ CallChild0
    \/ CallChildUnbound
    \/ CallChild1
    \/ FinishShot
    \/ FinishExperiment

(***************************************************************************)
(* The qobjs the model runs.  All experiments of a qobj have the same      *)
(* n_qubits and memory_slots, qubit and slot indices are in range, and no  *)
(* initial_statevector is configured.                                      *)
(***************************************************************************)
HexStr(n) == <<"0", "x", HexChars[n + 1]>>

X(q) == Op("u3", <<q>>, <<2, 0, 2>>)
H(q) == Op("u2", <<q>>, <<0, 2>>)
Z(q) == Op("u1", <<q>>, <<2>>)
Cx(c, t) == Op("cx", <<c, t>>, <<>>)
Unitary(q) == Op("unitary", <<q>>, <<>>)

Exp(instructions, slots) ==
    [instructions |-> instructions, n_qubits |-> 2, memory_slots |-> slots,
     has_allows |-> FALSE, allows_measure_sampling |-> FALSE,
     seed_simulator |-> <<>>]

Allowing(experiment, flag) ==
    [experiment EXCEPT !.has_allows = TRUE, !.allows_measure_sampling = flag]

\* the seed of the qobjs that do not say otherwise
Seed == 0

\* config.n_qubits as the assembler sets it: the largest of the experiments
MaxNQubits(experiments) ==
    CHOOSE n \in {experiments[j].n_qubits : j \in 1..Len(experiments)} :
        \A j \in 1..Len(experiments) : experiments[j].n_qubits <= n

Qobj(experiments, shots, mem, split) ==
    [experiments |-> experiments, shots |-> shots, memory |-> mem, split |-> split,
     initial_statevector |-> <<>>, chop_threshold |-> <<>>,
     seed_simulator |-> <<Seed>>, n_qubits |-> MaxNQubits(experiments)]

\* the same qobj with initial_statevector in its config
WithInitial(q, statevector) == [q EXCEPT !.initial_statevector = <<statevector>>]

\* normalised vectors of two qubits: |01> (qubit 0 is 1) and
\* (|00> + |11>) / sqrt(2)
InitialStatevectors ==
    {MkSV([i \in 0..3 |-> IF i = 1 THEN 1 ELSE 0], 1, 1),
     MkSV([i \in 0..3 |-> IF i \in {0, 3} THEN 1 ELSE 0], 1, 2)}

\* the scenarios of the documentation and circuits around them
Bell == <<H(0), Cx(0, 1), Measure(0, 0, NoneV), Measure(1, 1, NoneV)>>
ConditionalX == <<H(0), Measure(0, 0, 0), WithCond(X(1), CondBit(0)), Measure(1, 1, NoneV)>>
DeterministicReset == <<X(0), Op("reset", <<0>>, <<>>), Measure(0, 0, NoneV)>>
UnitaryX == <<Unitary(0), Measure(0, 0, NoneV)>>
MeasureTwice == <<H(0), Measure(0, 0, NoneV), Measure(0, 1, NoneV)>>
SameSlot == <<X(0), Measure(1, 0, NoneV), Measure(0, 0, NoneV)>>
SwappedSlots == <<X(0), Measure(0, 1, NoneV), Measure(1, 0, NoneV)>>
GuardedMeasure == <<X(0), Measure(0, 0, NoneV), WithCond(Measure(0, 1, NoneV), CondBit(0))>>
RegisterGuardedMeasure ==
    <<X(0), Measure(0, 0, 0), WithCond(Measure(0, 1, NoneV), CondBit(0))>>
ForkTwice == <<H(0), Measure(0, 0, NoneV), H(0), Measure(0, 1, NoneV)>>
FlipAfterFork == <<H(0), Measure(0, 0, NoneV), X(0), Measure(0, 1, NoneV)>>
ForkOnce == <<H(0), Measure(0, 0, NoneV)>>
GHZ == <<H(0), Cx(0, 1), Cx(1, 2),
         Measure(0, 0, NoneV), Measure(1, 1, NoneV), Measure(2, 2, NoneV)>>
Gates == <<Op("U", <<0>>, <<1, 0, 2>>), Z(0), Op("u0", <<0>>, <<>>),
           Op("CX", <<0, 1>>, <<>>), Op("barrier", <<0, 1>>, <<>>),
           Measure(0, 0, NoneV), Measure(1, 1, NoneV)>>

Scenarios ==
    {Bell, ConditionalX, DeterministicReset, UnitaryX, MeasureTwice, SameSlot,
     SwappedSlots, GuardedMeasure, RegisterGuardedMeasure, ForkTwice, FlipAfterFork, ForkOnce, Gates, <<>>}

\* two random classical bits: cmem in 0..3, creg = bit 0 of cmem
Prefix == <<H(0), Measure(0, 0, 0), H(1), Measure(1, 1, NoneV)>>

\* one instruction of every name the dispatcher looks at, and one it does
\* not know
Alphabet ==
    {X(1), Op("id", <<0>>, <<>>), Cx(0, 1), Op("reset", <<0>>, <<>>),
     Op("barrier", <<0, 1>>, <<>>), Measure(0, 1, 1),
     Bfunc(HexStr(1), "==", HexStr(1), 1, NoneV), Unitary(0),
     Op("snapshot", <<0>>, <<>>)}

MaxMask == 3

Conditionals ==
    {CondBit(b) : b \in 0..1}
    \cup {CondMask(HexStr(m), HexStr(v)) : m \in 0..MaxMask, v \in {0, 1, 3}}

ConditionalCircuits ==
    {Prefix \o <<WithCond(ins, c)>> : ins \in Alphabet, c \in Conditionals}

BfuncCircuits ==
    {Prefix \o <<Bfunc(HexStr(m), rel, HexStr(v), 1, mem)>> :
        m \in 1..MaxMask, rel \in Relations \cup {"=<"}, v \in 0..2, mem \in {NoneV, 0}}

\* instruction lists for the scan of the sampling optimiser
ScanLetters ==
    {Measure(0, 0, NoneV), Op("id", <<0>>, <<>>), Op("reset", <<0>>, <<>>), H(0)}

MaxScanLen == 3

\* the GHZ experiment on three qubits
Exp3 == [Exp(GHZ, 3) EXCEPT !.n_qubits = 3]

ScanCircuits ==
    UNION {[1..n -> ScanLetters] : n \in 1..MaxScanLen}

Qobjs ==
    \* every scenario alone, in every mode
    {Qobj(<<e>>, shots, mem, split) :
        e \in {Exp(c, 2) : c \in Scenarios}
              \cup {Allowing(Exp(c, 2), f) : c \in Scenarios, f \in BOOLEAN}
              \cup {Exp(<<H(0)>>, 0), Exp(ForkOnce, 0)},
        shots \in 1..MaxShots, mem \in BOOLEAN, split \in BOOLEAN}
    \* a scenario after an earlier experiment on the same backend
    \cup {Qobj(<<Exp(p, 2), Exp(c, 2)>>, shots, TRUE, split) :
        p \in {ForkOnce, ForkTwice}, c \in Scenarios,
        shots \in 1..MaxShots, split \in BOOLEAN}
    \cup {Qobj(<<Exp(c, 2), Exp(c, 2)>>, shots, TRUE, split) :
        c \in Scenarios, shots \in 1..MaxShots, split \in BOOLEAN}
    \* conditionals and boolean functions on random classical bits
    \cup {Qobj(<<Exp(c, 2)>>, shots, TRUE, split) :
        c \in ConditionalCircuits \cup BfuncCircuits,
        shots \in 1..MaxShots, split \in BOOLEAN}
    \* a configured initial statevector
    \cup {WithInitial(Qobj(<<Exp(c, 2)>>, shots, TRUE, split), v) :
        c \in {ForkOnce, DeterministicReset, FlipAfterFork, ConditionalX},
        v \in InitialStatevectors, shots \in 1..MaxShots, split \in BOOLEAN}
    \* three qubits
    \cup {Qobj(<<Exp3>>, shots, TRUE, split) :
        shots \in 1..MaxShots, split \in BOOLEAN}
    \* the scan, with and without the advisory flag
    \cup {Qobj(<<e>>, shots, TRUE, FALSE) :
        e \in {Exp(c, 2) : c \in ScanCircuits}
              \cup {Allowing(Exp(c, 2), f) : c \in ScanCircuits, f \in BOOLEAN},
        shots \in 1..MaxShots}

\* one run() call of a caller
Call(q, options, new_backend) ==
    [qobj |-> q, backend_options |-> options, new_backend |-> new_backend]

\* the instructions the dispatcher passes over
NoOp(k) ==
    IF k % 3 = 0 THEN Op("id", <<0>>, <<>>)
    ELSE IF k % 3 = 1 THEN Op("barrier", <<0, 1>>, <<>>)
    ELSE Op("u0", <<1>>, <<>>)

\* `instructions` with `ins` put in after the first k of them
Insert(instructions, k, ins) ==
    SubSeq(instructions, 1, k) \o <<ins>>
        \o SubSeq(instructions, k + 1, Len(instructions))

\* a circuit with one no-op, or two, put in at every place
Padded(c) ==
    {Insert(c, k, NoOp(k)) : k \in 0..Len(c)}
    \cup {Insert(Insert(c, k, NoOp(k + 1)), k, NoOp(k)) : k \in {0, Len(c)}}

\* two run() calls, each on a new backend, for the experiments `pre` and
\* then c, resp. d
TwoBackends(pre, c, d, shots, split) ==
    [max_qubits |-> DefaultMaxQubits,
     calls |-> <<Call(Qobj(pre \o <<Exp(c, 2)>>, shots, TRUE, split), NoOptions, TRUE),
                 Call(Qobj(pre \o <<Exp(d, 2)>>, shots, TRUE, split), NoOptions, TRUE)>>]

\* a circuit and the same circuit with no-ops put in, alone or after an
\* experiment that forks twice
NoOpPrograms ==
    UNION {{TwoBackends(<<>>, c, d, shots, split) :
               d \in Padded(c), shots \in 1..MaxShots, split \in BOOLEAN} :
           c \in {ForkOnce, ConditionalX, <<>>}}
    \cup
    UNION {{TwoBackends(<<Exp(ForkTwice, 2)>>, c, Insert(c, k, NoOp(k)), 1, TRUE) :
               k \in {0, Len(c)}} :
           c \in {ForkOnce, Bell}}

\* an experiment with seed_simulator in its config (<<>>: without)
Seeded(experiment, seed) == [experiment EXCEPT !.seed_simulator = seed]

\* two experiments that draw random numbers, with and without a seed in the
\* config of each and of the qobj
SeedPrograms ==
    {[max_qubits |-> DefaultMaxQubits,
      calls |-> <<Call([Qobj(<<Seeded(Exp(MeasureTwice, 2), a),
                               Seeded(Exp(DeterministicReset, 2), b)>>,
                             1, TRUE, split)
                           EXCEPT !.seed_simulator = c],
                       NoOptions, TRUE)>>] :
        a \in {<<>>, <<2>>}, b \in {<<>>, <<3>>}, c \in {<<>>, <<1>>},
        split \in BOOLEAN}

\* the vector 2 |00>, which is not normalised
Unnormalized == MkSV([i \in 0..3 |-> IF i = 0 THEN 1 ELSE 0], 4, 1)

\* |01> and the Bell state
BasisOne == MkSV([i \in 0..3 |-> IF i = 1 THEN 1 ELSE 0], 1, 1)
BellState == MkSV([i \in 0..3 |-> IF i \in {0, 3} THEN 1 ELSE 0], 1, 2)

\* the thresholds 2 and 0.5
ChopAll == <<2, 0>>
ChopHalf == <<5, 1>>

\* the ways a run() call gives its options: backend_options `bo`, and
\* initial_statevector `isv` and chop_threshold `chop` of the qobj config
OptionSettings ==
    {[bo |-> NoOptions, isv |-> <<>>, chop |-> <<>>],
     [bo |-> [initial_statevector |-> <<BasisOne>>, chop_threshold |-> <<ChopAll>>],
      isv |-> <<>>, chop |-> <<>>],
     [bo |-> NoOptions, isv |-> <<BellState>>, chop |-> <<ChopHalf>>],
     [bo |-> [initial_statevector |-> <<BasisOne>>, chop_threshold |-> <<ChopAll>>],
      isv |-> <<BellState>>, chop |-> <<ChopHalf>>],
     [bo |-> [initial_statevector |-> <<BellState>>, chop_threshold |-> <<>>],
      isv |-> <<>>, chop |-> <<ChopAll>>],
     [bo |-> [initial_statevector |-> <<Unnormalized>>, chop_threshold |-> <<>>],
      isv |-> <<BasisOne>>, chop |-> <<ChopHalf>>]}

\* run(qobj, backend_options) for an experiment and a way to give options
OptionCall(c, setting, split, new_backend) ==
    Call([Qobj(<<Exp(c, 2)>>, 1, TRUE, split)
             EXCEPT !.initial_statevector = setting.isv,
                    !.chop_threshold = setting.chop],
         setting.bo, new_backend)

\* two run() calls on one backend, each with its own options
OptionPrograms ==
    {[max_qubits |-> DefaultMaxQubits,
      calls |-> <<OptionCall(ForkOnce, a, split, TRUE),
                  OptionCall(ForkOnce, b, split, FALSE)>>] :
        a \in OptionSettings, b \in OptionSettings, split \in BOOLEAN}

\* |001> on three qubits
BasisOne3 == MkSV([i \in 0..7 |-> IF i = 1 THEN 1 ELSE 0], 1, 1)

\* a backend configured with at most two qubits
SmallMaxQubits == 2

\* qobjs of experiments on two and on three qubits: on a backend of at most
\* two qubits, with config.n_qubits as the assembler sets it or set by hand,
\* and with an initial_statevector that fits only some of the experiments
DimensionPrograms ==
    {[max_qubits |-> SmallMaxQubits,
      calls |-> <<Call([Qobj(e, 1, TRUE, FALSE) EXCEPT !.n_qubits = n], NoOptions, TRUE)>>] :
        e \in {<<Exp3>>, <<Exp(ForkOnce, 2), Exp3>>, <<Exp(ForkOnce, 2)>>},
        n \in {2, 3}}
    \cup
    {[max_qubits |-> DefaultMaxQubits,
      calls |-> <<Call(WithInitial(Qobj(e, 1, TRUE, FALSE), v), NoOptions, TRUE)>>] :
        e \in {<<Exp3>>, <<Exp(ForkOnce, 2), Exp3>>, <<Exp3, Exp(ForkOnce, 2)>>,
               <<Exp(ForkOnce, 2)>>},
        v \in {BasisOne, BasisOne3}}

\* the caller holds no Result object, and has called none of its accessors
NoResult == <<>>
NoReply == <<>>

\* what a caller does: the configuration of its backends and its run() calls
Programs ==
    {[max_qubits |-> DefaultMaxQubits, calls |-> <<Call(q, NoOptions, TRUE)>>] :
        q \in Qobjs}
    \cup NoOpPrograms
    \cup SeedPrograms
    \cup OptionPrograms
    \cup DimensionPrograms

Init ==
    /\ \E p \in Programs :
          /\ qobj = p.calls[1].qobj
          /\ backend_options = p.calls[1].backend_options
          /\ later = Tail(p.calls)
          /\ sim = [NewSimulator EXCEPT !.max_qubits = p.max_qubits]
    /\ returned = <<>>
    /\ seed_simulator = NoneV
    /\ expIdx = 1
    /\ pc = "call"
    /\ shot = 0
    /\ stack = <<>>
    /\ memory = <<>>
    /\ measure_sample_ops = <<>>
    /\ results = <<>>
    /\ last = NoLast
    /\ visits = <<>>
    /\ log = <<>>
    /\ draws = <<>>
    /\ result = NoResult
    /\ reply = NoReply
    /\ forked = {}

Spec == Init /\ [][Next]_vars

(***************************************************************************)
(* Result (qiskit/result/result.py): the object run() hands back, and its  *)
(* accessors.  A key that a dict does not have is <<>>, a key it has is    *)
(* <<value>>.                                                              *)
(***************************************************************************)
MaxResults == 2

Names == {"a", "b"}

\* `data` of an experiment result of a QASM run without and with memory and
\* final state, and of a unitary run
CountsOnly ==
    [counts |-> <<Counter(<<"0x0", "0x1">>)>>, memory |-> <<>>, statevector |-> <<>>,
     statevector_tree |-> <<>>, unitary |-> <<>>]
FullData ==
    [counts |-> <<Counter(<<"0x1">>)>>, memory |-> <<<<"0x1">>>>,
     statevector |-> <<BasisOne>>, statevector_tree |-> <<[value |-> BasisOne]>>,
     unitary |-> <<>>]
UnitaryOnly ==
    [counts |-> <<>>, memory |-> <<>>, statevector |-> <<>>, statevector_tree |-> <<>>,
     unitary |-> <<<<<<1, 0>>, <<0, 1>>>>>>]

DefaultMeasLevel == 2
UnsupportedMeasLevel == 3

\* experiment results, with and without a header
ExperimentResults ==
    {[header |-> h, data |-> d, meas_level |-> DefaultMeasLevel] :
        h \in {<<>>} \cup {<<[name |-> n]>> : n \in Names},
        d \in {CountsOnly, FullData, UnitaryOnly}}
    \cup {[header |-> <<[name |-> "a"]>>, data |-> FullData,
           meas_level |-> UnsupportedMeasLevel]}

\* Result objects
Results ==
    {[success |-> s, results |-> r] :
        s \in BOOLEAN,
        r \in UNION {[1..n -> ExperimentResults] : n \in 0..MaxResults}}

\* the `experiment` argument: None, an int, a str, a QuantumCircuit or
\* Schedule with that name
Key(kind, index, name) == [kind |-> kind, index |-> index, name |-> name]
Keys ==
    {Key("None", 0, "")}
    \cup {Key("int", k, "") : k \in (0 - 1)..MaxResults}
    \cup {Key("str", 0, n) : n \in Names \cup {"", "c"}}
    \cup {Key("circuit", 0, n) : n \in Names}

\* how a call ends: with the exception `raises`, or returning `value` taken
\* from self.results[position]
Raise(exception) == [raises |-> exception, position |-> NoneV, value |-> <<>>]
Return(position, value) == [raises |-> "", position |-> position, value |-> <<value>>]

\* getattr(getattr(result, 'header', None), 'name', '')
HeaderName(experiment_result) ==
    IF experiment_result.header = <<>> THEN "" ELSE experiment_result.header[1].name

\* self.results[key] of a python list
ListItem(list, key) ==
    IF key >= 0 /\ key < Len(list) THEN Return(key, list[key + 1])
    ELSE IF key < 0 /\ key >= 0 - Len(list) THEN Return(key + Len(list), list[key + Len(list) + 1])
    ELSE Raise("IndexError")

\* Result._get_experiment
GetExperiment(self, key) ==
    IF ~self.success
    THEN Raise("QiskitError")
    ELSE IF key.kind = "None" /\ Len(self.results) # 1
    THEN Raise("QiskitError")
    ELSE IF key.kind \in {"None", "int"}
    THEN ListItem(self.results, IF key.kind = "None" THEN 0 ELSE key.index)
    ELSE LET matches == {i \in 1..Len(self.results) : HeaderName(self.results[i]) = key.name}
         IN  IF matches = {} THEN Raise("QiskitError")
             ELSE LET first == CHOOSE i \in matches : \A j \in matches : i <= j
                  IN  Return(first - 1, self.results[first])

\* Result.data: the data dict of the experiment result
ResultData(self, key) ==
    LET found == GetExperiment(self, key)
    IN  IF found.raises # "" THEN found
        ELSE Return(found.position, found.value[1].data)

\* self.data(experiment)[field] inside `try: ... except KeyError: raise
\* QiskitError`; the value goes on to the formatter of qiskit.result.postprocess
DataField(self, key, field) ==
    LET data == ResultData(self, key)
    IN  IF data.raises # "" THEN data
        ELSE IF data.value[1][field] = <<>> THEN Raise("QiskitError")
        ELSE Return(data.position, data.value[1][field][1])

\* Result.get_counts
GetCounts(self, key) ==
    LET exp == GetExperiment(self, key)
    IN  IF exp.raises # "" THEN exp ELSE DataField(self, key, "counts")

\* Result.get_memory
GetMemory(self, key) ==
    LET exp_result == GetExperiment(self, key)
    IN  IF exp_result.raises # "" THEN exp_result
        ELSE LET words == DataField(self, key, "memory")
             IN  IF words.raises # "" THEN words
                 ELSE IF exp_result.value[1].meas_level \in {0, 1, 2} THEN words
                 ELSE Raise("QiskitError")

\* Result.get_statevector, get_statevector_tree, get_unitary
GetResultStatevector(self, key) == DataField(self, key, "statevector")
GetStatevectorTree(self, key) == DataField(self, key, "statevector_tree")
GetUnitary(self, key) == DataField(self, key, "unitary")

\* what the caller keeps of a call
Reply(accessor, key, outcome) == [accessor |-> accessor, key |-> key, outcome |-> outcome]

Backend == <<qobj, sim, expIdx, pc, shot, stack, memory, measure_sample_ops,
             results, last, visits, log, draws,
             backend_options, seed_simulator, later, returned, forked>>

CallGetExperiment ==
    /\ \E key \in Keys : reply' = Reply("_get_experiment", key, GetExperiment(result, key))
    /\ UNCHANGED <<Backend, result>>

CallData ==
    /\ \E key \in Keys : reply' = Reply("data", key, ResultData(result, key))
    /\ UNCHANGED <<Backend, result>>

CallGetCounts ==
    /\ \E key \in Keys : reply' = Reply("get_counts", key, GetCounts(result, key))
    /\ UNCHANGED <<Backend, result>>

CallGetMemory ==
    /\ \E key \in Keys : reply' = Reply("get_memory", key, GetMemory(result, key))
    /\ UNCHANGED <<Backend, result>>

CallGetStatevector ==
    /\ \E key \in Keys :
          reply' = Reply("get_statevector", key, GetResultStatevector(result, key))
    /\ UNCHANGED <<Backend, result>>

CallGetStatevectorTree ==
    /\ \E key \in Keys :
          reply' = Reply("get_statevector_tree", key, GetStatevectorTree(result, key))
    /\ UNCHANGED <<Backend, result>>

CallGetUnitary ==
    /\ \E key \in Keys : reply' = Reply("get_unitary", key, GetUnitary(result, key))
    /\ UNCHANGED <<Backend, result>>

\* a caller that holds a Result object; no run() call is in progress
ResultInit ==
    /\ result \in Results
    /\ reply = NoReply
    /\ qobj = Qobj(<<Exp(<<>>, 0)>>, 1, FALSE, FALSE)
    /\ backend_options = NoOptions
    /\ later = <<>>
    /\ sim = NewSimulator
    /\ returned = <<>>
    /\ seed_simulator = NoneV
    /\ expIdx = 1
    /\ pc = "done"
    /\ shot = 0
    /\ stack = <<>>
    /\ memory = <<>>
    /\ measure_sample_ops = <<>>
    /\ results = <<>>
    /\ last = NoLast
    /\ visits = <<>>
    /\ log = <<>>
    /\ draws = <<>>
    /\ forked = {}

ResultNext ==
    \/ CallGetExperiment
    \/ CallData
    \/ CallGetCounts
    \/ CallGetMemory
    \/ CallGetStatevector
    \/ CallGetStatevectorTree
    \/ CallGetUnitary

ResultSpec == ResultInit /\ [][ResultNext]_vars

(***************************************************************************)
(* Properties.                                                             *)
(***************************************************************************)
\* the dispatcher is about to run the loop body on Instructions[Top.i]
AtDispatch == pc = "run" /\ Top.ph = "loop"
Current == Instructions[Top.i]
CurrentSelf == NodeAt(sim, Top.path)

\* the state is the one a pass of the loop has just left
JustDispatched == last.idx # 0 /\ pc \in {"run", "error"}
LastIns == Instructions[last.idx]

\* the frame after a pass that neither broke the loop nor raised
Advanced(frame) ==
    IF frame.i = Len(Instructions)
    THEN [frame EXCEPT !.last = frame.i, !.ph = "after"]
    ELSE [frame EXCEPT !.last = frame.i, !.i = frame.i + 1]

\* C1: an instruction with an integer conditional b is skipped when bit b of
\* creg is 0 (the whole simulator tree, with statevector, cmem, creg,
\* children and random source, the memory list and the recorded measures are
\* unchanged, nothing is raised and the loop goes on to the next
\* instruction); when bit b is 1 the dispatcher does exactly what it does
\* for the same instruction without the conditional.
C1_IntegerConditional ==
    [][(AtDispatch /\ Current.conditional.kind = "int") =>
          IF BitAt(CurrentSelf.creg, Current.conditional.bit) = 0
          THEN /\ sim' = sim
               /\ memory' = memory
               /\ measure_sample_ops' = measure_sample_ops
               /\ pc' = "run"
               /\ stack' = SetTop(Advanced(Top))
          ELSE Dispatch(CurrentSelf, Current, qobj.split)
                  = Dispatch(CurrentSelf, WithCond(Current, NoCond), qobj.split)]_vars

\* a conditioned reset was skipped on bit b of creg although bit b of cmem
\* is 1
C1_Witness ==
    /\ JustDispatched
    /\ LastIns.conditional.kind = "int"
    /\ last.res.skipped
    /\ BitAt(last.pre.cmem, LastIns.conditional.bit) = 1
    /\ LastIns.name = "reset"

\* position of the lowest set bit of a mask that has one
LowestSetBit(mask) ==
    CHOOSE k \in 0..MaxMask :
        BitAt(mask, k) = 1 /\ \A j \in 0..(k - 1) : BitAt(mask, j) = 0

\* (cmem & mask) >> lsb(mask); the masked region of an empty mask is 0
MaskedValue(cmem, mask) ==
    IF mask = 0 THEN 0 ELSE BitAnd(cmem, mask) \div Pow2(LowestSetBit(mask))

LastMask == IntHex(LastIns.conditional.mask)
LastVal == IntHex(LastIns.conditional.val)

\* what a pass leaves when the conditional lets the instruction through: one
\* of the results of the same instruction without conditional, run on the
\* simulator as it was before the pass (cmem included)
ExecutedAsUnconditioned ==
    /\ ~last.res.skipped
    /\ last.res \in Dispatch(last.pre, WithCond(LastIns, NoCond), qobj.split)

\* what a pass leaves when the conditional skips the instruction
SkippedUntouched ==
    /\ last.res.skipped
    /\ last.res.self = last.pre
    /\ last.res.rec = <<>> /\ last.res.err = "" /\ ~last.res.brk

\* C2 (amended): an instruction with a masked conditional {mask, val} whose
\* mask has a set bit is skipped iff (cmem & mask) >> lsb(mask) differs from
\* val, and is otherwise executed on the unmodified cmem exactly as the
\* unconditioned instruction; with mask = 0 it is never skipped, whatever
\* val is.
C2_MaskedConditional ==
    (JustDispatched /\ LastIns.conditional.kind = "mask") =>
        IF LastMask > 0 /\ MaskedValue(last.pre.cmem, LastMask) # LastVal
        THEN SkippedUntouched
        ELSE ExecutedAsUnconditioned

\* C2 as stated: skipped iff (cmem & mask) >> lsb(mask) differs from val,
\* for every mask
C2_Original ==
    (JustDispatched /\ LastIns.conditional.kind = "mask") =>
        IF MaskedValue(last.pre.cmem, LastMask) # LastVal
        THEN SkippedUntouched
        ELSE ExecutedAsUnconditioned

\* mask 0x2, val 0x1 and bit 1 of cmem set: the masked value 2 is shifted to
\* 1 and the reset is executed
C2_Witness ==
    /\ JustDispatched
    /\ LastIns.conditional.kind = "mask"
    /\ LastMask = 2 /\ LastVal = 1
    /\ BitAnd(last.pre.cmem, 2) = 2
    /\ ~last.res.skipped
    /\ LastIns.name = "reset"

\* the same mask with bit 1 of cmem clear: the reset is skipped
C2_WitnessSkipped ==
    /\ JustDispatched
    /\ LastIns.conditional.kind = "mask"
    /\ LastMask = 2 /\ LastVal = 1
    /\ BitAnd(last.pre.cmem, 2) = 0
    /\ last.res.skipped
    /\ LastIns.name = "reset"

LastExecuted == JustDispatched /\ ~last.res.skipped

\* C3: an executed bfunc computes v = (cmem & mask) - val from the classical
\* memory and writes 1 into creg[register] exactly when the relation holds
\* between v and 0.
C3_BfuncOnMemory ==
    (LastExecuted /\ LastIns.name = "bfunc" /\ LastIns.relation \in Relations) =>
        LET v == BitAnd(last.pre.cmem, IntHex(LastIns.mask)) - IntHex(LastIns.val)
        IN  /\ last.res.err = ""
            /\ BitAt(last.res.self.creg, LastIns.register)
                  = BoolToInt(BfuncOutcome(LastIns.relation, v))

\* a bfunc with mask 0x2, relation == and val 0x2 ran with bit 1 of cmem set
\* and bit 1 of creg clear, and wrote 0
C3_Witness ==
    /\ LastExecuted /\ LastIns.name = "bfunc"
    /\ LastIns.relation = "==" /\ IntHex(LastIns.mask) = 2 /\ IntHex(LastIns.val) = 2
    /\ BitAt(last.pre.cmem, 1) = 1 /\ BitAt(last.pre.creg, 1) = 0
    /\ BitAt(last.res.self.creg, LastIns.register) = 0

\* the matrix [[0, 1], [1, 0]]
PauliX == SingleGateMatrix("u3", <<2, 0, 2>>)

\* C4: an executed `unitary` on one qubit is accepted and applied to the
\* state; it never fails as an unrecognized operation.
C4_UnitaryAccepted ==
    (LastExecuted /\ LastIns.name = "unitary") =>
        /\ last.res.err = ""
        /\ pc # "error"
        /\ last.res.self.sv = AddUnitarySingle(last.pre.sv, PauliX, LastIns.qubits[1])

\* the first instruction of the experiment, an unconditioned unitary on
\* |00>, was rejected and the job stopped
C4_Witness ==
    /\ LastExecuted /\ LastIns.name = "unitary" /\ last.idx = 1
    /\ LastIns.conditional = NoCond
    /\ last.res.err = "unrecognized operation"
    /\ pc = "error"

RecognisedNames ==
    {"U", "u0", "u1", "u2", "u3", "id", "CX", "cx", "unitary", "reset", "barrier",
     "measure", "bfunc"}

\* the experiment has failed: an error was raised and no result was added
\* for it
FailedWithoutResult == pc = "error" /\ Len(results) = expIdx - 1

\* C5 (amended): when the dispatcher reaches an instruction of a name outside
\* the recognised set and the conditional (if any) does not skip it, the
\* experiment fails with an error and returns no result; when its
\* conditional skips it, nothing is raised.
C5_UnrecognizedInstruction ==
    (JustDispatched /\ LastIns.name \notin RecognisedNames) =>
        IF last.res.skipped
        THEN last.res.err = "" /\ pc = "run"
        ELSE last.res.err = "unrecognized operation" /\ FailedWithoutResult

\* C5 as stated: the experiment fails whether or not the instruction carries
\* a conditional
C5_Original ==
    (JustDispatched /\ LastIns.name \notin RecognisedNames) => FailedWithoutResult

\* a snapshot whose integer conditional holds (bit 0 of creg is 1) stopped
\* the experiment
C5_Witness ==
    /\ JustDispatched /\ LastIns.name = "snapshot"
    /\ LastIns.conditional.kind = "int"
    /\ BitAt(last.pre.creg, LastIns.conditional.bit) = 1
    /\ FailedWithoutResult

\* the scan of the sampling decision, stated on the whole list
NoResetAndMeasurementTail(instructions) ==
    /\ \A j \in 1..Len(instructions) : instructions[j].name # "reset"
    /\ \A j, k \in 1..Len(instructions) :
          (j < k /\ instructions[j].name = "measure")
              => instructions[k].name \in {"measure", "barrier", "id", "u0"}

SamplingDecision ==
    IF qobj.shots <= 1 THEN FALSE
    ELSE IF Experiment.has_allows THEN Experiment.allows_measure_sampling
    ELSE NoResetAndMeasurementTail(Instructions)

\* run_experiment has taken its sampling decision
Decided == pc \in {"shots", "run", "done", "error"}

C6_WitnessScan ==
    /\ pc = "shots" /\ shot = 0
    /\ ~Experiment.has_allows
    /\ \E j \in 2..Len(Instructions) :
          Instructions[j].name = "id" /\ Instructions[j - 1].name = "measure"
    /\ sim.sample_measure

\* the experiment runs (or has run) with sampling on
Sampling == Decided /\ sim.sample_measure

\* the job has returned and the last experiment was sampled into memory
SampledDone == pc = "done" /\ sim.sample_measure /\ Experiment.memory_slots > 0

RECURSIVE MeasurePairs(_)
\* the (qubit, cmembit) pairs of the measures of a list, in list order
MeasurePairs(instructions) ==
    IF instructions = <<>> THEN <<>>
    ELSE (IF Head(instructions).name = "measure"
          THEN <<<<Head(instructions).qubits[1], Head(instructions).memory>>>>
          ELSE <<>>) \o MeasurePairs(Tail(instructions))

Unconditioned(instructions) ==
    \A j \in 1..Len(instructions) : instructions[j].conditional = NoCond

\* C7: with sample_measure true the instruction list is walked exactly once
\* per experiment (no instruction is reached twice, and each has been
\* reached once when the experiment is over), every executed measure is
\* recorded as its (qubit, cmembit) pair, in list order, and leaves the
\* simulator it runs on unchanged, and with memory slots the memory list has
\* exactly `shots` entries.
C7_SampleModeEvolution ==
    /\ Sampling => \A j \in 1..Len(visits) : visits[j] <= 1
    /\ (Sampling /\ LastExecuted /\ LastIns.name = "measure") =>
          /\ last.res.rec = <<<<LastIns.qubits[1], LastIns.memory>>>>
          /\ last.res.self = last.pre
    /\ (Sampling /\ pc = "done") =>
          /\ \A j \in 1..Len(visits) : visits[j] = 1
          /\ Unconditioned(Instructions) =>
                measure_sample_ops = MeasurePairs(Instructions)
    /\ SampledDone => Len(memory) = qobj.shots

\* on a backend that forked in an earlier experiment, a sampled experiment
\* handed its second measure to a child left from that fork, and the measure
\* collapsed the child's state instead of being recorded
C7_Witness ==
    /\ Sampling /\ LastExecuted /\ LastIns.name = "measure"
    /\ expIdx = 2 /\ last.path # <<>>
    /\ last.res.rec = <<>>
    /\ last.res.self # last.pre
    /\ visits[last.idx] = 2

\* the measure that is the last one of the list writing its memory slot
LastWriter(ops, k) == \A j \in (k + 1)..Len(ops) : ops[j][2] # ops[k][2]

\* the outcome bit of qubit q in sample s: the i-th measured qubit in
\* ascending order is bit i of the sample
OutcomeBit(measured, s, q) ==
    BitAt(s, (CHOOSE j \in 1..Len(measured) : measured[j] = q) - 1)

\* C8: every memory word emitted in sample mode comes from a sample of the
\* final state such that, for each recorded measure (q, c) that is the last
\* to write slot c, bit c of the word is the outcome bit of qubit q in that
\* sample; so two slots written from the same qubit hold equal bits.
C8_SampleExpansion ==
    SampledDone =>
        LET ops      == measure_sample_ops
            measured == AscendingSeq(MeasuredQubits(ops))
        IN  \A n \in 1..Len(memory) :
              \E v \in 0..(Pow2(Experiment.memory_slots) - 1) :
                /\ memory[n] = MemoryWord(v)
                /\ \E s \in SampleSupport(sim, ops) :
                      \A k \in 1..Len(ops) :
                          LastWriter(ops, k) =>
                              BitAt(v, ops[k][2]) = OutcomeBit(measured, s, ops[k][1])

\* h on qubit 0 measured into slots 0 and 1: the word 0x1 was emitted, its
\* bits 0 and 1 differ
C8_Witness ==
    /\ SampledDone
    /\ measure_sample_ops = <<<<0, 0>>, <<0, 1>>>>
    /\ \E n \in 1..Len(memory) : memory[n] = MemoryWord(1)

RECURSIVE CollapseRuns(_, _)
\* the simulators the dispatcher can leave after a list, shot by shot
\* (sample_measure false, no split), from the simulators `selfs`
CollapseRuns(selfs, instructions) ==
    IF instructions = <<>> THEN selfs
    ELSE CollapseRuns(
             UNION {{r.self : r \in {x \in Dispatch(s, Head(instructions), FALSE) :
                                         x.err = ""}} : s \in selfs},
             Tail(instructions))

\* the memory words one shot of the collapse path can append
CollapseWords ==
    {MemoryWord(s.cmem) :
        s \in CollapseRuns({[SetOptions(NewSimulator, qobj, backend_options) EXCEPT
                                !.sv = InitializeStatevector(sim, Experiment.n_qubits)]},
                           Instructions)}

\* the memory words _add_sample_measure can emit from the final state
SampleWords ==
    {MemoryWord(ExpandSample(sim.cmem, Sorted(measure_sample_ops), 0, s)) :
        s \in SampleSupport(sim, measure_sample_ops)}

\* a sampled experiment of a non-split backend that the scan has allowed
\* (no flag in the config) is over
ScanSampledDone ==
    /\ SampledDone /\ ~qobj.split /\ Len(qobj.experiments) = 1
    /\ ~Experiment.has_allows

\* C9: for a list the scan allows, the memory words the sample path can emit
\* are exactly the words the shot-by-shot collapse path can emit.
C9_SamplingEquivalence ==
    ScanSampledDone =>
        /\ SampleWords = CollapseWords
        /\ \A n \in 1..Len(memory) : memory[n] \in CollapseWords

\* x on qubit 0, measure qubit 1 then qubit 0 into slot 0: the sample path
\* emitted 0x0, the collapse path can only give 0x1
C9_Witness ==
    /\ ScanSampledDone
    /\ Instructions = SameSlot
    /\ CollapseWords = {MemoryWord(1)}
    /\ memory[1] = MemoryWord(0)

\* the pass was an executed measure that was not sampled
CollapsingMeasure ==
    /\ LastExecuted /\ LastIns.name = "measure" /\ last.res.err = ""
    /\ ~last.pre.sample_measure

LastProbabilities == Probabilities(last.pre.sv, LastIns.qubits[1])

\* C10: an executed, non-sampled measure creates children iff the backend
\* splits and both marginal probabilities of the qubit are nonzero;
\* otherwise it creates none and the state is collapsed onto an outcome of
\* nonzero probability, which is the bit written to cmem.
C10_ForkTrigger ==
    CollapsingMeasure =>
        LET created == Len(last.res.self.subs) > Len(last.pre.subs)
            p       == LastProbabilities
        IN  /\ created <=> (qobj.split /\ NonZero(p[1]) /\ NonZero(p[2]))
            /\ ~created =>
                  \E o \in {0, 1} :
                      /\ NonZero(p[o + 1]) /\ ~IsNaN(p[o + 1])
                      /\ last.res.self.subs = last.pre.subs
                      /\ BitAt(last.res.self.cmem, LastIns.memory) = o
                      /\ last.res.self.sv =
                            UpdateStateAfterMeasure(last.pre, LastIns.qubits[1],
                                LastIns.memory, o, p[o + 1], LastIns.register).sv

\* a child left from the fork of an earlier shot, re-collapsed to the zero
\* vector by the fork of this shot, measured a qubit whose two probabilities
\* are 0: outcome 1 was taken with probability 0
C10_Witness ==
    /\ CollapsingMeasure
    /\ last.path # <<>>
    /\ LastProbabilities = <<Rat(0, 1), Rat(0, 1)>>
    /\ Len(last.res.self.subs) = Len(last.pre.subs)
    /\ BitAt(last.res.self.cmem, LastIns.memory) = 1

RECURSIVE Paths(_)
\* the paths from a node to itself and to every simulator below it
Paths(node) ==
    {<<>>} \cup
    UNION {{<<k>> \o p : p \in Paths(node.subs[k])} : k \in 1..Len(node.subs)}

\* statevector, cmem and creg of a node
OwnState(node) == <<node.sv, node.cmem, node.creg>>

\* the first run_experiment on the backend is between its first shot and its
\* return: every child there is was made by a fork of this call
InFirstExperiment == expIdx = 1 /\ pc \in {"shots", "run"}

\* C11: once a node has forked, no step before the return of run_experiment
\* changes its own statevector, cmem or creg.
C11_ParentFrozen ==
    [][InFirstExperiment =>
         \A p \in Paths(sim) :
             NodeAt(sim, p).subs # <<>> =>
                 OwnState(NodeAt(sim', p)) = OwnState(NodeAt(sim, p))]_vars

\* second shot: the root, which forked in the first shot, is back in the
\* all-zeros state and its dispatcher is running on it again
C11_Witness ==
    /\ InFirstExperiment /\ pc = "run" /\ shot = 1
    /\ Len(stack) = 1 /\ Top.path = <<>> /\ Top.ph = "loop"
    /\ sim.subs # <<>>
    /\ sim.sv = InitialStatevector(Experiment.n_qubits)

\* the instruction indexes the simulator at path p has dispatched in this
\* shot, in order
PassesOf(p) ==
    LET ByP(e) == e.ev = "pass" /\ e.path = p
        sel    == SelectSeq(log, ByP)
    IN  [j \in 1..Len(sel) |-> sel[j].idx]

RECURSIVE BranchPasses(_, _)
\* the passes of the simulators on the way from the root to path p:
\* those of the first n steps of p, then the rest
BranchPasses(p, n) ==
    IF n > Len(p) THEN <<>>
    ELSE PassesOf(SubSeq(p, 1, n)) \o BranchPasses(p, n + 1)

\* the simulators without children
Leaves == {p \in Paths(sim) : NodeAt(sim, p).subs = <<>>}

\* a shot of a split backend is over
SplitShotOver == qobj.split /\ pc = "shots" /\ shot >= 1

\* C12: when a shot of a split run is over, along every branch from the root
\* to a leaf every instruction of the list has been dispatched exactly once
\* and in list order, the passes of a forked node ending with the measure
\* that forked it.
C12_ResumeAfterFork ==
    SplitShotOver =>
        /\ \A p \in Leaves :
              BranchPasses(p, 0) = [j \in 1..Len(Instructions) |-> j]
        /\ \A p \in Paths(sim) \ Leaves :
              PassesOf(p) # <<>> =>
                  Instructions[PassesOf(p)[Len(PassesOf(p))]].name = "measure"

\* after the second shot the root has four children; the two its fork made
\* in this shot (the third and the fourth) have dispatched nothing
C12_Witness ==
    /\ SplitShotOver /\ shot = 2 /\ expIdx = 1
    /\ Len(sim.subs) = 4
    /\ PassesOf(<<3>>) = <<>> /\ PassesOf(<<4>>) = <<>>
    /\ PassesOf(<<1>>) # <<>>

\* the paths of the simulators that appended a word to the memory list in
\* this shot, in the order of the appends
Appenders ==
    LET IsAppend(e) == e.ev = "append"
        sel         == SelectSeq(log, IsAppend)
    IN  [j \in 1..Len(sel) |-> sel[j].path]

\* C13: when a shot of a split run with memory slots is over, no forked node
\* has appended to the memory list and every leaf has appended exactly one
\* word: the shot has produced as many words as the tree has leaves.
C13_MemoryFromLeaves ==
    (SplitShotOver /\ Experiment.memory_slots > 0 /\ ~sim.sample_measure) =>
        /\ \A j \in 1..Len(Appenders) : Appenders[j] \in Leaves
        /\ \A p \in Leaves :
              Cardinality({j \in 1..Len(Appenders) : Appenders[j] = p}) = 1
        /\ Len(Appenders) = Cardinality(Leaves)

\* one shot of h; measure on a fresh split backend: two leaves, three words,
\* the last one appended by the root with its cmem 0
C13_Witness ==
    /\ SplitShotOver /\ shot = 1 /\ expIdx = 1 /\ qobj.shots = 1
    /\ Instructions = ForkOnce /\ Experiment.memory_slots > 0
    /\ Cardinality(Leaves) = 2
    /\ memory = <<MemoryWord(0), MemoryWord(1), MemoryWord(0)>>
    /\ Appenders = <<<<1>>, <<2>>, <<>>>>

\* C14: on a split backend every simulator node has no children or exactly
\* two, and as many branch probabilities as children, in every reachable
\* state.
C14_ChildListSize ==
    qobj.split =>
        \A p \in Paths(sim) :
            /\ Len(NodeAt(sim, p).subs) \in {0, 2}
            /\ Len(NodeAt(sim, p).probs) = Len(NodeAt(sim, p).subs)

\* the second shot of h; measure has forked the root again: it has four
\* children and four branch probabilities
C14_Witness ==
    /\ qobj.split /\ expIdx = 1 /\ shot = 1 /\ pc = "run"
    /\ Instructions = ForkOnce
    /\ Len(sim.subs) = 4 /\ Len(sim.probs) = 4

\* the job had the same experiment twice and has returned, and the random
\* source returned the same values to the two run_experiment calls (so it
\* may have been seeded alike)
SameExperimentTwice ==
    /\ pc = "done" /\ Len(qobj.experiments) = 2
    /\ qobj.experiments[1] = qobj.experiments[2]
    /\ draws[1] = draws[2]

\* C15: two run_experiment calls on one backend for the same experiment, to
\* which the random source gives the same values, return the same counts,
\* memory, statevector and statevector_tree.
C15_Reproducibility ==
    SameExperimentTwice => results[1].data = results[2].data

\* h; measure twice on a split backend, one shot each, no random number
\* drawn: the second call returns a tree whose path_0 leaf is not the
\* normalised |00> the first call returned
C15_Witness ==
    /\ SameExperimentTwice /\ qobj.split /\ qobj.shots = 1
    /\ Instructions = ForkOnce
    /\ draws = <<<<>>, <<>>>>
    /\ results[1].data.statevector_tree[1].path_0.value = InitialStatevector(2)
    /\ results[2].data.statevector_tree[1].path_0.value # InitialStatevector(2)

\* event a of the log was done below child 0, and event b below child 1, of
\* one and the same simulator
BelowSiblings(a, b) ==
    \E n \in 0..Len(log[a].path) :
        /\ Len(log[a].path) > n /\ Len(log[b].path) > n
        /\ SubSeq(log[a].path, 1, n) = SubSeq(log[b].path, 1, n)
        /\ log[a].path[n + 1] = 1
        /\ log[b].path[n + 1] = 2

\* C16: in a split run everything child 0 and the simulators below it do
\* (dispatcher passes and appends to the memory list) comes before anything
\* child 1 or a simulator below it does, so the memory words of the path_0
\* subtree stand before those of the path_1 subtree.
C16_ChildOrder ==
    qobj.split =>
        \A a, b \in 1..Len(log) :
            BelowSiblings(a, b) =>
                /\ a < b
                /\ (log[a].ev = "append" /\ log[b].ev = "append")
                       => log[a].idx < log[b].idx

\* h; measure; h; measure: both children of the root have dispatched and
\* appended, and so have the two children of child 0
C16_Witness ==
    /\ qobj.split /\ pc = "run" /\ expIdx = 1 /\ shot = 0
    /\ Instructions = ForkTwice
    /\ \E a, b, c, d \in 1..Len(log) :
          /\ log[a].path = <<1, 1>> /\ log[a].ev = "append"
          /\ log[b].path = <<1, 2>> /\ log[b].ev = "append"
          /\ log[c].path = <<1>> /\ log[c].ev = "pass"
          /\ log[d].path = <<2>> /\ log[d].ev = "append"

\* the loop of a shot has not run a pass yet
ShotStart == pc = "run" /\ log = <<>>

\* the initial_statevector the run() call asks for, <<>> for none
ConfiguredOption == OptionInitialStatevector(qobj, backend_options)

\* what the run() call asks a shot to begin with
ConfiguredInitialState ==
    IF ConfiguredOption = <<>>
    THEN InitialStatevector(Experiment.n_qubits)
    ELSE ConfiguredOption[1]

\* C17: every shot begins with the state vector equal to the configured
\* initial state (basis state 0 when none is configured) and with the
\* classical memory and register zero; the stored initial_statevector option
\* stays what the run() call gave, whatever the shots write to the state
\* vector.
C17_PerShotReset ==
    /\ pc # "call" => sim.initial_statevector = ConfiguredOption
    /\ ShotStart => /\ sim.sv = ConfiguredInitialState
                    /\ sim.cmem = 0
                    /\ sim.creg = 0

\* a second shot begins with a configured vector after a first shot that
\* left another state vector and a nonzero classical memory
C17_Witness ==
    /\ ShotStart
    /\ shot >= 1
    /\ ConfiguredOption # <<>>
    /\ last.idx # 0
    /\ last.res.self.sv # ConfiguredInitialState
    /\ last.res.self.cmem # 0
    /\ sim.sv = ConfiguredInitialState

\* python's  amplitude != 0  for basis index i (nan != 0 is True)
AmplitudeNonZero(sv, i) == sv.den = 0 \/ (sv.vec[i] # 0 /\ sv.num # 0)

\* the outcomes _get_measure_outcome can have drawn in the last pass, a
\* measure that collapsed the state instead of forking
LastDrawn ==
    {d \in GetMeasureOutcome(last.pre, LastIns.qubits[1]) :
        last.res.self = UpdateStateAfterMeasure(d.self, LastIns.qubits[1],
                            LastIns.memory, d.outcome, d.probability, LastIns.register)}

\* the pass was an executed, non-sampled measure that drew its outcome
DrawnMeasure ==
    /\ CollapsingMeasure
    /\ Len(last.res.self.subs) = Len(last.pre.subs)

\* the experiment is the Conditional X circuit, run from the default initial
\* state, and its config does not force measure sampling
ConditionalXRun ==
    /\ Decided
    /\ sim.initial_statevector = <<>>
    /\ Instructions = ConditionalX
    /\ ~(Experiment.has_allows /\ Experiment.allows_measure_sampling)

\* C18: after an executed non-sampled measure of qubit q into slot c that
\* drew outcome o, bit c of cmem is o, every basis state of nonzero amplitude
\* has bit q equal to o, and measuring q again at once can only give o; every
\* memory word of the Conditional X circuit is 0x0 or 0x3.
C18_CollapseConsistency ==
    /\ DrawnMeasure =>
          /\ LastDrawn # {}
          /\ \A d \in LastDrawn :
                LET q    == LastIns.qubits[1]
                    self == last.res.self
                IN  /\ BitAt(self.cmem, LastIns.memory) = d.outcome
                    /\ \A i \in DOMAIN self.sv.vec :
                          AmplitudeNonZero(self.sv, i) => BitAt(i, q) = d.outcome
                    /\ \A again \in GetMeasureOutcome(self, q) :
                          again.outcome = d.outcome
    /\ ConditionalXRun =>
          \A n \in 1..Len(memory) : memory[n] \in {MemoryWord(0), MemoryWord(3)}

\* the second shot of the Conditional X circuit on a splitting backend: the
\* child left from the first shot measured qubit 1 and the shot appended 0x1
C18_Witness ==
    /\ ConditionalXRun
    /\ qobj.split
    /\ shot >= 1
    /\ \E n \in 1..Len(memory) : memory[n] = MemoryWord(1)

\* the pass was an executed reset
ExecutedReset == LastExecuted /\ LastIns.name = "reset" /\ last.res.err = ""

\* the experiment is the circuit x, reset, measure on qubit 0, run from the
\* default initial state
DeterministicResetRun ==
    /\ Decided
    /\ sim.initial_statevector = <<>>
    /\ Instructions = DeterministicReset

\* C19: after an executed reset of qubit q every basis state of nonzero
\* amplitude has bit q equal to 0 and comes from a basis state of nonzero
\* amplitude with the same bits on the other qubits, and cmem and creg are
\* unchanged; every memory word of the circuit x, reset, measure is 0x0.
C19_Reset ==
    /\ ExecutedReset =>
          LET q    == LastIns.qubits[1]
              self == last.res.self
          IN  /\ self.cmem = last.pre.cmem
              /\ self.creg = last.pre.creg
              /\ \A i \in DOMAIN self.sv.vec :
                    AmplitudeNonZero(self.sv, i) =>
                        /\ BitAt(i, q) = 0
                        /\ \E o \in {0, 1} :
                              AmplitudeNonZero(last.pre.sv, i + o * Pow2(q))
    /\ DeterministicResetRun =>
          \A n \in 1..Len(memory) : memory[n] = MemoryWord(0)

\* x, reset, measure ran after an experiment that forked on the same
\* splitting backend, and a memory word other than 0x0 was appended
C19_Witness ==
    /\ DeterministicResetRun
    /\ expIdx = 2
    /\ qobj.split
    /\ visits[2] >= 1
    /\ \E n \in 1..Len(memory) : memory[n] # MemoryWord(0)

\* the experiment is the Bell or the GHZ circuit, run from the default
\* initial state
EntangledRun ==
    /\ Decided
    /\ sim.initial_statevector = <<>>
    /\ Instructions \in {Bell, GHZ}

\* C20: every memory word of the Bell circuit and of the GHZ circuit is the
\* all-zeros word or the all-ones word of its memory slots (0x0 or 0x3,
\* 0x0 or 0x7), whether the shots are run one by one or sampled.
C20_EntangledOutcomes ==
    EntangledRun =>
        \A n \in 1..Len(memory) :
            memory[n] \in {MemoryWord(0),
                           MemoryWord(Pow2(Experiment.memory_slots) - 1)}

\* the Bell circuit was sampled after an experiment that forked on the same
\* splitting backend, and a word with unequal bits was appended
C20_Witness ==
    /\ EntangledRun
    /\ expIdx = 2
    /\ qobj.split
    /\ sim.sample_measure
    /\ \E n \in 1..Len(memory) : memory[n] \in {MemoryWord(1), MemoryWord(2)}

\* an unconditioned id, u0 or barrier
IsNoOp(ins) == ins.name \in {"id", "u0", "barrier"} /\ ins.conditional = NoCond

IsNotNoOp(ins) == ~IsNoOp(ins)

\* a qobj without the no-ops of its instruction lists
StripNoOps(q) ==
    [q EXCEPT !.experiments =
        [k \in DOMAIN @ |->
            [@[k] EXCEPT !.instructions = SelectSeq(@, IsNotNoOp)]]]

\* the last of two run() calls, each on a new backend, has returned or
\* failed, and the two qobjs differ by no-ops only
NoOpPair ==
    /\ Len(returned) = 1 /\ later = <<>>
    /\ pc \in {"done", "error", "rejected"}
    /\ StripNoOps(returned[1].qobj) = StripNoOps(qobj)
    /\ returned[1].qobj # qobj

\* a is draws b with more draws after them
IsPrefix(a, b) == Len(a) <= Len(b) /\ SubSeq(b, 1, Len(a)) = a

\* the random source can have given the two calls the same values: in every
\* experiment the draws of one call are the draws of the other, or their
\* beginning
SameValuesDrawn(first, second) ==
    \A k \in 1..Len(first) :
        k <= Len(second) =>
            IsPrefix(first[k], second[k]) \/ IsPrefix(second[k], first[k])

\* as long as the random source has given the two calls the same values,
\* they ask it for the next one in the same state
SameStatesAtDraws(first, second) ==
    \A k \in 1..Len(first) :
        k <= Len(second) /\ (\A h \in 1..(k - 1) : first[h] = second[h]) =>
            \A j \in 1..Len(first[k]) :
                j <= Len(second[k])
                    /\ SubSeq(first[k], 1, j - 1) = SubSeq(second[k], 1, j - 1) =>
                        /\ first[k][j].kind = second[k][j].kind
                        /\ first[k][j].before = second[k][j].before

\* C21: a qobj and the same qobj with unconditioned id, u0 or barrier
\* instructions put in, run with the same seed and shots, return the same
\* counts, memory, statevector and statevector_tree for every experiment,
\* end with the same final state vector and take the same sampling decision.
C21_NoOpInstructions ==
    /\ NoOpPair => SameStatesAtDraws(returned[1].draws, draws)
    /\ (NoOpPair /\ SameValuesDrawn(returned[1].draws, draws)) =>
        /\ returned[1].status = pc
        /\ returned[1].results = results
        /\ returned[1].draws = draws
        /\ returned[1].sim.sv = sim.sv
        /\ returned[1].sim.sample_measure = sim.sample_measure

\* after an experiment that forks twice on a splitting backend, h; measure
\* fails, and with an id after the measure it returns a result
C21_Witness ==
    /\ NoOpPair
    /\ qobj.split
    /\ returned[1].status = "error"
    /\ Len(returned[1].results) = 1
    /\ returned[1].qobj.experiments[2].instructions = ForkOnce
    /\ pc = "done"
    /\ Len(results) = 2
    /\ SameValuesDrawn(returned[1].draws, draws)

\* the seed the configs give experiment k of the qobj: <<>> when neither
\* the experiment nor the qobj has one
ConfiguredSeed(k) ==
    IF qobj.experiments[k].seed_simulator # <<>> THEN qobj.experiments[k].seed_simulator
    ELSE qobj.seed_simulator

\* s can be the seed of experiment k
SeedOf(k, s) ==
    IF ConfiguredSeed(k) # <<>> THEN s = ConfiguredSeed(k)[1]
    ELSE s \in 0..MaxRandomSeed

C22_WitnessRandom ==
    /\ pc = "done"
    /\ ConfiguredSeed(expIdx) = <<>>
    /\ results[expIdx].seed_simulator = MaxRandomSeed

\* the chop_threshold the run() call asks for
ConfiguredChopThreshold ==
    IF backend_options.chop_threshold # <<>> THEN backend_options.chop_threshold[1]
    ELSE IF qobj.chop_threshold # <<>> THEN qobj.chop_threshold[1]
    ELSE DefaultChopThreshold

\* run() has been called and _set_options has not raised
OptionsSet == pc # "call" /\ ~SetOptionsRaises(qobj, backend_options)

\* C23: after _set_options of a run() call, initial_statevector and
\* chop_threshold are the values of backend_options if given, else of the
\* qobj config if given, else None and 1e-15, whatever earlier run() calls on
\* the backend had set, and this in every simulator that takes part in the
\* run (the backend and the children it holds).
C23_OptionPrecedence ==
    OptionsSet =>
        \A p \in Paths(sim) :
            /\ NodeAt(sim, p).initial_statevector = ConfiguredOption
            /\ NodeAt(sim, p).chop_threshold = ConfiguredChopThreshold

\* a run() without options has returned, on a backend whose earlier run()
\* had chop_threshold 2 and forked: the leaf under path_0 of the returned
\* tree is emitted as the zero vector
C23_Witness ==
    /\ pc = "done" /\ qobj.split
    /\ Len(returned) = 1
    /\ backend_options = NoOptions
    /\ qobj.chop_threshold = <<>>
    /\ returned[1].sim.chop_threshold = ChopAll
    /\ sim.chop_threshold = DefaultChopThreshold
    /\ sim.subs[1].chop_threshold = ChopAll
    /\ sim.subs[1].sv # MkSV(ZeroVec(2), 0, 1)
    /\ results[1].data.statevector_tree[1].path_0.value = MkSV(ZeroVec(2), 0, 1)

\* ---------------------------------------------------------------------
\* C24  dimension validation

\* experiment k has more qubits than the backend allows
Oversized(k) == qobj.experiments[k].n_qubits > sim.max_qubits

\* the configured initial_statevector does not have length 2^n_qubits of
\* experiment k
WrongLength(k) ==
    /\ ConfiguredOption # <<>>
    /\ Cardinality(DOMAIN ConfiguredOption[1].vec) # Dim(qobj.experiments[k].n_qubits)

\* the run reached experiment k and executed none of its instructions
NothingExecuted(k) ==
    \/ expIdx < k
    \/ /\ expIdx = k
       /\ pc \in {"idle", "rejected"}

\* the dimension checks of experiment k
DimensionValidated(k) ==
    (Oversized(k) \/ WrongLength(k))
        => /\ NothingExecuted(k)
           /\ Len(results) < k
           /\ pc # "done"

\* C24: no instruction of an experiment is executed when its n_qubits
\* exceeds the backend maximum or when the configured initial_statevector
\* has a length other than 2^n_qubits of that experiment; the run gives no
\* result for it and does not complete
C24_DimensionValidation ==
    pc # "call" => \A k \in 1..Len(qobj.experiments) : DimensionValidated(k)

\* the same for the length of the initial_statevector alone
C24_LengthValidation ==
    pc # "call" =>
        \A k \in 1..Len(qobj.experiments) :
            WrongLength(k) => /\ NothingExecuted(k)
                              /\ Len(results) < k
                              /\ pc # "done"

\* the qobj's config.n_qubits is the largest n_qubits of its experiments,
\* as the assembler sets it
AssembledNQubits == qobj.n_qubits = MaxNQubits(qobj.experiments)

\* the same for the qobjs whose config.n_qubits the assembler set
C24_AssembledValidation ==
    (pc # "call" /\ AssembledNQubits) =>
        \A k \in 1..Len(qobj.experiments) : DimensionValidated(k)

\* an experiment of wrong dimension was reached and the run failed on it
C24_Witness ==
    /\ pc = "rejected"
    /\ expIdx = 2
    /\ WrongLength(2)
    /\ Len(results) = 1

\* a run on a backend of at most two qubits failed on a qobj of three qubits
C24_WitnessOversized ==
    /\ pc = "rejected"
    /\ Oversized(1)
    /\ results = <<>>

\* an instruction of a three-qubit experiment is executed on a backend of at
\* most two qubits
C24_OversizedExecuted ==
    /\ pc = "run"
    /\ Oversized(expIdx)
    /\ last.idx > 0

\* ---------------------------------------------------------------------
\* C25  split-tree branch probabilities

\* the qubits of an emitted statevector
QubitsOf(value) == {q \in 0..2 : Pow2(q) < Cardinality(DOMAIN value.vec)}

IsInternal(tree) == "path_0" \in DOMAIN tree

\* the branch probabilities of an internal node of the emitted tree are
\* positive, sum to 1 and are the marginal probabilities of one qubit in the
\* node's own value
LocalBranchProbabilities(tree) ==
    LET p0 == tree.path_0_probability
        p1 == tree.path_1_probability
    IN  /\ ~IsNaN(p0) /\ ~IsNaN(p1)
        /\ p0[1] > 0 /\ p1[1] > 0
        /\ p0[1] * p1[2] + p1[1] * p0[2] = p0[2] * p1[2]
        /\ \E q \in QubitsOf(tree.value) : Probabilities(tree.value, q) = <<p0, p1>>

RECURSIVE BranchProbabilitiesInTree(_)
BranchProbabilitiesInTree(tree) ==
    IsInternal(tree) =>
        /\ LocalBranchProbabilities(tree)
        /\ BranchProbabilitiesInTree(tree.path_0)
        /\ BranchProbabilitiesInTree(tree.path_1)

\* the statevector_tree of the k-th result of the run, when there is one
TreeOfResult(k) == results[k].data.statevector_tree

\* C25: at every internal node of every emitted statevector_tree the two
\* branch probabilities are strictly positive, sum to 1 and equal the
\* marginal probabilities of the triggering qubit in the node's own value.
C25_BranchProbabilities ==
    \A k \in 1..Len(results) :
        TreeOfResult(k) # <<>> => BranchProbabilitiesInTree(TreeOfResult(k)[1])

\* the same for the first result of a run() call on a new backend that runs
\* one shot with the default chop_threshold
C25_FirstShotOnly ==
    (Len(returned) = 0 /\ qobj.shots = 1 /\ Len(results) >= 1
        /\ sim.chop_threshold = DefaultChopThreshold /\ TreeOfResult(1) # <<>>)
        => BranchProbabilitiesInTree(TreeOfResult(1)[1])

\* a tree with a fork below a fork was emitted, with local probabilities
\* 1/2 at both levels
C25_Witness ==
    /\ Len(results) >= 1 /\ TreeOfResult(1) # <<>>
    /\ Len(returned) = 0 /\ qobj.shots = 1
    /\ IsInternal(TreeOfResult(1)[1])
    /\ IsInternal(TreeOfResult(1)[1].path_0)
    /\ TreeOfResult(1)[1].path_0.path_0_probability = <<1, 2>>
    /\ BranchProbabilitiesInTree(TreeOfResult(1)[1])

\* the same for runs in which every simulator has the default chop_threshold
C25_DefaultChopThreshold ==
    (\A p \in Paths(sim) : NodeAt(sim, p).chop_threshold = DefaultChopThreshold)
        => C25_BranchProbabilities

\* the tree of a second experiment that did not fork has the children and
\* the probabilities 1/2 of the first experiment under the root value |00>
C25_StaleBranch ==
    /\ Len(results) = 2 /\ TreeOfResult(2) # <<>>
    /\ sim.chop_threshold = DefaultChopThreshold
    /\ qobj.experiments[2].instructions = DeterministicReset
    /\ IsInternal(TreeOfResult(2)[1])
    /\ TreeOfResult(2)[1].path_0_probability = <<1, 2>>
    /\ Probabilities(TreeOfResult(2)[1].value, 0) = <<(<<1, 1>>), (<<0, 1>>)>>

\* ---------------------------------------------------------------------
\* C26  Result lookup (a property of ResultSpec)

Called == reply # NoReply

\* the positions (from 0) of the results whose header has the name
NamedPositions(name) ==
    {i \in 0..(Len(result.results) - 1) :
        /\ result.results[i + 1].header # <<>>
        /\ result.results[i + 1].header[1].name = name}

ByName(key) == key.kind \in {"str", "circuit"}

\* the key selects no result
LookupFails(key) ==
    \/ key.kind = "None" /\ Len(result.results) # 1
    \/ ByName(key) /\ NamedPositions(key.name) = {}

\* the key selects the result at a position
LookupDefined(key) ==
    \/ key.kind = "None" /\ Len(result.results) = 1
    \/ key.kind = "int" /\ key.index >= 0 /\ key.index < Len(result.results)
    \/ ByName(key) /\ NamedPositions(key.name) # {}

SelectedPosition(key) ==
    IF key.kind = "None" THEN 0
    ELSE IF key.kind = "int" THEN key.index
    ELSE CHOOSE i \in NamedPositions(key.name) : \A j \in NamedPositions(key.name) : i <= j

\* the accessor gave what it gives for the result at that position, or failed
\* with QiskitError for want of the data it is after
AnsweredFrom(position) ==
    /\ reply.outcome.raises \in {"", "QiskitError"}
    /\ reply.outcome.raises = "" => reply.outcome.position = position
    /\ reply.accessor = "_get_experiment"
           => reply.outcome = Return(position, result.results[position + 1])
    /\ reply.accessor = "data"
           => reply.outcome = Return(position, result.results[position + 1].data)

LookupAsClaimed ==
    /\ ~result.success => reply.outcome.raises = "QiskitError"
    /\ (result.success /\ LookupFails(reply.key)) => reply.outcome.raises = "QiskitError"
    /\ (result.success /\ LookupDefined(reply.key))
           => AnsweredFrom(SelectedPosition(reply.key))

\* C26: every accessor of a Result fails with QiskitError when the success
\* flag is false; otherwise key None selects the single result and fails
\* when there is not exactly one, an integer key selects the result at that
\* position, and a name (of a str, circuit or schedule) selects the first
\* result whose header name equals it and fails when there is none.
C26_ResultLookup == Called => LookupAsClaimed

\* the same for keys other than the empty name, and for Results whose
\* experiment results all have a header
C26_NamedResults ==
    (/\ Called
     /\ \/ reply.key.name # ""
        \/ ~ByName(reply.key)
        \/ \A i \in 1..Len(result.results) : result.results[i].header # <<>>)
        => LookupAsClaimed

\* a name that two results have selected the first of them
C26_Witness ==
    /\ Called
    /\ result.success
    /\ reply.key = Key("str", 0, "a")
    /\ NamedPositions("a") = {0, 1}
    /\ result.results[1] # result.results[2]
    /\ reply.accessor = "data"
    /\ reply.outcome = Return(0, result.results[1].data)

\* an accessor of an unsuccessful Result failed with QiskitError
C26_WitnessUnsuccessful ==
    /\ Called
    /\ ~result.success
    /\ Len(result.results) = 1
    /\ reply.accessor = "get_counts"
    /\ reply.outcome.raises = "QiskitError"

\* the empty name selected a result that has no header
C26_UnnamedSelected ==
    /\ Called
    /\ result.success
    /\ reply.key = Key("str", 0, "")
    /\ NamedPositions("") = {}
    /\ reply.accessor = "_get_experiment"
    /\ reply.outcome.raises = ""
    /\ reply.outcome.value[1].header = <<>>

\* ---------------------------------------------------------------------
\* C27  bfunc writes

\* value with bit b taken out
WithoutBit(value, b) == value - BitAt(value, b) * Pow2(b)

LastBfunc == LastExecuted /\ LastIns.name = "bfunc"

C27_WitnessNoMemory ==
    /\ LastBfunc
    /\ LastIns.memory = NoneV
    /\ last.pre.creg = 1 /\ last.res.self.creg = 3
    /\ last.pre.cmem = 3

\* ---------------------------------------------------------------------
\* C28  masked classical writes

GateNames == {"U", "u1", "u2", "u3", "CX", "cx", "id", "u0", "barrier", "reset"}

LastMeasure == LastExecuted /\ LastIns.name = "measure" /\ ~last.pre.sample_measure
LastGate == LastExecuted /\ LastIns.name \in GateNames

\* the simulator that ran the pass, and every simulator below it before the
\* pass, has after the pass the cmem and creg it had, but for bit c of cmem
\* and bit r of creg (NoneV: no bit)
ClassicalKeptBut(c, r) ==
    \A p \in Paths(last.pre) :
        LET before == NodeAt(last.pre, p)
            after  == NodeAt(last.res.self, p)
        IN  /\ IF c = NoneV THEN after.cmem = before.cmem
               ELSE WithoutBit(after.cmem, c) = WithoutBit(before.cmem, c)
            /\ IF r = NoneV THEN after.creg = before.creg
               ELSE WithoutBit(after.creg, r) = WithoutBit(before.creg, r)

\* C28: an executed non-sampled measure into memory c changes cmem in at
\* most bit c and creg in at most bit r, and leaves creg unchanged when it
\* has no register; U, u1, u2, u3, CX, cx, id, u0, barrier and reset leave
\* cmem and creg unchanged.
C28_MaskedClassicalWrites ==
    /\ LastMeasure => ClassicalKeptBut(LastIns.memory, LastIns.register)
    /\ LastGate => ClassicalKeptBut(NoneV, NoneV)

\* a measure without register wrote 1 into cmem bit 1 beside a set cmem bit 0
\* and a set creg bit 0
C28_Witness ==
    /\ LastMeasure
    /\ LastIns.memory = 1 /\ LastIns.register = NoneV
    /\ last.pre.cmem = 1 /\ last.res.self.cmem = 3
    /\ last.pre.creg = 1 /\ last.res.self.creg = 1

\* a measure with register wrote 1 into bit 1 of cmem and of creg beside the
\* set bits 0
C28_WitnessRegister ==
    /\ LastMeasure
    /\ LastIns.memory = 1 /\ LastIns.register = 1
    /\ last.pre.cmem = 1 /\ last.res.self.cmem = 3
    /\ last.pre.creg = 1 /\ last.res.self.creg = 3

\* a reset and a u3 ran with both classical words nonzero
C28_WitnessReset ==
    /\ LastGate /\ LastIns.name = "reset"
    /\ last.pre.cmem = 3 /\ last.pre.creg = 1
    /\ last.res.self.sv # last.pre.sv

C28_WitnessGate ==
    /\ LastGate /\ LastIns.name = "u3"
    /\ last.pre.cmem = 3 /\ last.pre.creg = 1
    /\ last.res.self.sv # last.pre.sv

\* ---------------------------------------------------------------------
\* C29  child state at fork

\* the basis states of nonzero amplitude (nan is not zero)
Support(sv) ==
    IF sv.den = 0 THEN DOMAIN sv.vec ELSE {i \in DOMAIN sv.vec : sv.vec[i] # 0}

\* the pass that has just run was a measure that forked its simulator
LastForked ==
    /\ LastMeasure
    /\ qobj.split
    /\ Len(last.res.self.subs) = Len(last.pre.subs) + 2

\* child k of the simulator that forked, as the dispatcher resumes it and as
\* the result tree shows it
ChildAfterFork(k) == last.res.self.subs[k + 1]

ChildAsClaimed(k) ==
    LET parent == last.res.self
        child  == ChildAfterFork(k)
        q      == LastIns.qubits[1]
    IN  /\ child.cmem = WriteBit(parent.cmem, LastIns.memory, k)
        /\ child.creg = IF LastIns.register = NoneV THEN parent.creg
                        ELSE WriteBit(parent.creg, LastIns.register, k)
        /\ child.subs = <<>>
        /\ \A i \in Support(child.sv) : BitAt(i, q) = k

\* C29: immediately after a fork at a measure of qubit q into memory c (and
\* register r), child k has the parent's cmem with bit c = k and the parent's
\* creg with bit r = k (unchanged without register), has no children, and
\* has nonzero amplitudes only on basis states whose bit q is k; the nonzero
\* basis states of the two children together are those of the parent.
C29_ChildStateAtFork ==
    LastForked =>
        /\ ChildAsClaimed(0)
        /\ ChildAsClaimed(1)
        /\ Support(ChildAfterFork(0).sv) \cup Support(ChildAfterFork(1).sv)
              = Support(last.res.self.sv)

\* the same for the forks in the first shot of the first experiment that a
\* backend runs
C29_FirstShot ==
    (returned = <<>> /\ expIdx = 1 /\ shot = 0) => C29_ChildStateAtFork

\* a child forked beside nonzero classical words: the Bell-like state after
\* the prefix, cmem 1 and creg 1, measured on qubit 1 into memory 1
C29_Witness ==
    /\ LastForked /\ returned = <<>> /\ expIdx = 1 /\ shot = 0
    /\ last.pre.cmem = 1 /\ last.pre.creg = 1
    /\ LastIns.memory = 1
    /\ ChildAfterFork(1).cmem = 3
    /\ ChildAfterFork(0).cmem = 1
    /\ Cardinality(Support(last.res.self.sv)) = 2

\* a second fork of the same simulator: the children the dispatcher resumes
\* are those of the first fork, with children of their own
C29_StaleChild ==
    /\ LastForked /\ last.pre.subs # <<>>
    /\ ChildAfterFork(0).subs # <<>>

\* ---------------------------------------------------------------------
\* C30  fork isolation

\* statevector, cmem, creg, random source and the length of the child list
Own(node) == <<node.sv, node.cmem, node.creg, node.rng, Len(node.subs), Len(node.probs)>>

\* the step leaves every simulator above `path` with its statevector, cmem,
\* creg, random source and as many children, and every other simulator
\* outside the subtree of `path` as it was
KeepsOutside(path) ==
    /\ Paths(sim) \subseteq Paths(sim')
    /\ \A p \in Paths(sim) :
          IF IsPrefix(path, p) THEN TRUE
          ELSE IF IsPrefix(p, path) THEN Own(NodeAt(sim', p)) = Own(NodeAt(sim, p))
          ELSE NodeAt(sim', p) = NodeAt(sim, p)

\* C30: a pass of the dispatcher on a child of a fork changes neither the
\* statevector, cmem, creg, random source or child list of any simulator
\* above it nor anything of a sibling or of a sibling's subtree.
C30_ForkIsolation ==
    [][(DispatchStep /\ Top.path # <<>>) => KeepsOutside(Top.path)]_vars

\* a child drew from its random source and collapsed while its parent and
\* its sibling, which have theirs at other values, stayed
C30_Witness ==
    /\ JustDispatched /\ pc = "run"
    /\ Len(last.path) = 1
    /\ last.res.self.rng # last.pre.rng
    /\ last.res.self.cmem # last.pre.cmem
    /\ NodeAt(sim, last.path) = last.res.self
    /\ sim.rng # last.res.self.rng
    /\ Len(sim.subs) >= 2
    /\ NodeAt(sim, <<3 - last.path[1]>>).rng # last.res.self.rng

\* ---------------------------------------------------------------------
\* C31  tree shape

RECURSIVE InternalPaths(_)
\* the paths (1 for path_0, 2 for path_1) to the nodes of an emitted tree
\* that carry path_0 and path_1
InternalPaths(tree) ==
    IF IsInternal(tree)
    THEN {<<>>} \cup {<<1>> \o p : p \in InternalPaths(tree.path_0)}
                \cup {<<2>> \o p : p \in InternalPaths(tree.path_1)}
    ELSE {}

RECURSIVE WellKeyed(_)
\* every node has the key value alone, or value and the four path keys
WellKeyed(tree) ==
    IF IsInternal(tree)
    THEN /\ DOMAIN tree = {"value", "path_0", "path_0_probability",
                           "path_1", "path_1_probability"}
         /\ WellKeyed(tree.path_0)
         /\ WellKeyed(tree.path_1)
    ELSE DOMAIN tree = {"value"}

RECURSIVE Depth(_)
Depth(tree) ==
    IF IsInternal(tree)
    THEN 1 + (IF Depth(tree.path_0) >= Depth(tree.path_1)
              THEN Depth(tree.path_0) ELSE Depth(tree.path_1))
    ELSE 0

MeasureCount(instructions) ==
    Cardinality({j \in 1..Len(instructions) : instructions[j].name = "measure"})

\* run_experiment has just returned the last entry of `results`
JustReturned ==
    /\ Len(results) >= 1
    /\ \/ pc = "done"
       \/ pc = "idle" /\ expIdx = Len(results) + 1

ReturnedTree == TreeOfResult(Len(results))
ReturnedInstructions == qobj.experiments[Len(results)].instructions

\* C31: the emitted statevector_tree has path_0, path_1 and their
\* probabilities at exactly the nodes whose simulator forked in this
\* run_experiment, its leaves have the key value alone, and its depth is at
\* most the number of measure instructions of the circuit.
C31_TreeShape ==
    (JustReturned /\ ReturnedTree # <<>>) =>
        /\ WellKeyed(ReturnedTree[1])
        /\ InternalPaths(ReturnedTree[1]) = forked
        /\ Depth(ReturnedTree[1]) <= MeasureCount(ReturnedInstructions)

\* the same for the first experiment a backend runs
C31_FirstExperiment ==
    (returned = <<>> /\ Len(results) = 1) => C31_TreeShape

\* the tree of h; measure; h; measure after one shot on a new backend: the
\* root and both children forked
C31_Witness ==
    /\ JustReturned /\ returned = <<>> /\ Len(results) = 1 /\ qobj.shots = 1
    /\ ReturnedTree # <<>>
    /\ forked = {<<>>, <<1>>, <<2>>}
    /\ InternalPaths(ReturnedTree[1]) = forked
    /\ Depth(ReturnedTree[1]) = 2

\* an experiment without a fork returned a tree with the children of the
\* experiment before it
C31_StaleTree ==
    /\ JustReturned /\ ReturnedTree # <<>>
    /\ forked = {}
    /\ IsInternal(ReturnedTree[1])

\* ---------------------------------------------------------------------
\* C32  histogram totals

RECURSIVE SumOver(_, _)
\* the sum of the values of a histogram over a set of its keys
SumOver(counts, keys) ==
    IF keys = {} THEN 0
    ELSE LET k == CHOOSE w \in keys : TRUE
         IN  counts[k] + SumOver(counts, keys \ {k})

Occurrences(mem, w) == Cardinality({j \in 1..Len(mem) : mem[j] = w})

ReturnedExperiment == qobj.experiments[Len(results)]
ReturnedData == results[Len(results)].data

\* the histogram and the memory list of the returned result, `memory` being
\* the list run_experiment built
HistogramOfMemory ==
    /\ DOMAIN ReturnedData.counts = {memory[j] : j \in 1..Len(memory)}
    /\ \A w \in DOMAIN ReturnedData.counts :
          ReturnedData.counts[w] = Occurrences(memory, w)
    /\ qobj.memory => ReturnedData.memory = memory

\* C32: on a non-split backend, an experiment with memory_slots > 0 returns
\* a memory list of exactly `shots` words, counts[k] is the number of
\* occurrences of k in it and the counts sum to `shots`; with memory_slots =
\* 0 the memory list and the counts are empty.  Without sampling the list
\* has one word per shot run so far, the last one that of the shot that has
\* just ended.
C32_HistogramTotals ==
    /\ (~qobj.split /\ JustReturned) =>
          /\ HistogramOfMemory
          /\ IF ReturnedExperiment.memory_slots > 0
             THEN /\ Len(memory) = qobj.shots
                  /\ SumOver(ReturnedData.counts, DOMAIN ReturnedData.counts) = qobj.shots
             ELSE /\ memory = <<>>
                  /\ DOMAIN ReturnedData.counts = {}
    /\ (~qobj.split /\ pc = "shots" /\ ~sim.sample_measure /\ Experiment.memory_slots > 0) =>
          /\ Len(memory) = shot
          /\ shot >= 1 => memory[shot] = MemoryWord(sim.cmem)

\* two shots without sampling gave two different words, each counted once
C32_Witness ==
    /\ ~qobj.split /\ JustReturned /\ ~sim.sample_measure
    /\ qobj.shots = 2 /\ qobj.memory
    /\ ReturnedExperiment.memory_slots > 0
    /\ ReturnedData.memory = <<MemoryWord(1), MemoryWord(0)>>
    /\ ReturnedData.counts[MemoryWord(0)] = 1

\* two sampled shots gave the same word twice
C32_WitnessSampled ==
    /\ ~qobj.split /\ JustReturned /\ sim.sample_measure
    /\ qobj.shots = 2
    /\ Len(memory) = 2 /\ memory[1] = memory[2]
    /\ ReturnedData.counts[memory[1]] = 2

\* an experiment without memory slots that measures returned nothing
C32_WitnessNoSlots ==
    /\ ~qobj.split /\ JustReturned
    /\ ReturnedExperiment.memory_slots = 0
    /\ MeasureCount(ReturnedInstructions) > 0
    /\ memory = <<>>

\* ---------------------------------------------------------------------
\* C33  random draws of a sampled experiment

\* the calls the returned run_experiment made to the random source
ReturnedDraws == draws[Len(draws)]

ChoiceCalls(d) == {j \in 1..Len(d) : d[j].kind = "choice"}

ReturnedSampled ==
    /\ JustReturned
    /\ sim.sample_measure
    /\ ReturnedExperiment.memory_slots > 0

\* C33: a sampled experiment advances the random source by exactly one
\* batch of `shots` sample draws, and the memory list it returns is that
\* batch, the first values the seeded source produces.
C33_SampleDraws ==
    ReturnedSampled =>
        /\ sim.rng.choice = 1
        /\ Cardinality(ChoiceCalls(ReturnedDraws)) = 1
        /\ \A j \in ChoiceCalls(ReturnedDraws) : ReturnedDraws[j].words = memory

\* what the code does on a non-split backend: two batches, the first drawn
\* in the tail of _run_single_shot and dropped, the second returned
C33_TwoBatches ==
    (ReturnedSampled /\ ~qobj.split) =>
        /\ sim.rng.choice = 2
        /\ Cardinality(ChoiceCalls(ReturnedDraws)) = 2
        /\ ReturnedDraws[Len(ReturnedDraws)].kind = "choice"
        /\ ReturnedDraws[Len(ReturnedDraws)].words = memory
        /\ ReturnedDraws[Len(ReturnedDraws) - 1].kind = "choice"
        /\ ReturnedDraws[Len(ReturnedDraws) - 1].words = <<>>

\* a sampled experiment of two shots returned the second batch
C33_SecondBatchReturned ==
    /\ ReturnedSampled /\ ~qobj.split
    /\ qobj.shots = 2
    /\ sim.rng.choice = 2
    /\ Len(memory) = 2
    /\ Len(ReturnedDraws) = 2
    /\ ReturnedDraws[2].words = memory
    /\ memory[1] # memory[2]

\* ---------------------------------------------------------------------
\* C34  random draws without sampling

\* the pass was run by a simulator that does not sample
CollapsePass == JustDispatched /\ ~last.pre.sample_measure

\* the values the pass took from the random source of its simulator
DrawsOfPass == last.res.self.rng.rand - last.pre.rng.rand

\* the pass left the random sources of the simulators below its own alone
ChildSourcesKept ==
    \A p \in Paths(last.pre) :
        NodeAt(last.res.self, p).rng.seed = NodeAt(last.pre, p).rng.seed
        /\ NodeAt(last.res.self, p).rng.choice = NodeAt(last.pre, p).rng.choice
        /\ (p # <<>> => NodeAt(last.res.self, p).rng = NodeAt(last.pre, p).rng)

DrawPerCollapse ==
    CollapsePass =>
        /\ ChildSourcesKept
        /\ DrawsOfPass = IF ExecutedReset \/ DrawnMeasure THEN 1 ELSE 0

\* between the passes of a run without sampling on a non-split backend
\* (start and tail of a shot, the shot loop, the return of run_experiment)
BetweenPasses ==
    /\ ~qobj.split
    /\ pc \in {"shots", "run"}
    /\ ~sim.sample_measure
    /\ pc = "run" => Top.ph # "loop"

\* C34: a simulator that does not sample takes exactly one value from its
\* random source in each executed reset and in each executed measure that
\* does not fork, and none in any other pass (gates, id, u0, barrier, bfunc,
\* skipped instructions, forking measures) nor between the passes.
C34_CollapseDraws ==
    /\ []DrawPerCollapse
    /\ [][BetweenPasses => sim'.rng = sim.rng]_vars

\* a reset and then a measure each took one value
C34_Witness ==
    /\ CollapsePass /\ DrawnMeasure
    /\ last.pre.rng.rand = 1
    /\ last.res.self.rng.rand = 2
    /\ \E j \in 1..(last.idx - 1) : Instructions[j].name = "reset"

\* a measure forked and took no value
C34_WitnessFork ==
    /\ CollapsePass /\ LastForked
    /\ DrawsOfPass = 0

\* an instruction skipped by its conditional, and an executed bfunc, after a
\* draw
C34_WitnessSkipped ==
    /\ CollapsePass /\ last.res.skipped
    /\ last.pre.rng.rand >= 1
    /\ DrawsOfPass = 0

C34_WitnessBfunc ==
    /\ CollapsePass /\ LastBfunc
    /\ last.pre.rng.rand >= 1
    /\ DrawsOfPass = 0

\* ---------------------------------------------------------------------
\* C35  masked conditional with an empty mask

EmptyMaskPass ==
    /\ JustDispatched
    /\ LastIns.conditional.kind = "mask"
    /\ LastMask = 0

\* C35: an instruction whose conditional record has mask 0 is executed for
\* every cmem and every val; it is never skipped.
C35_EmptyMask ==
    EmptyMaskPass =>
        /\ ~last.res.skipped
        /\ last.res \in Dispatch(last.pre, WithCond(LastIns, NoCond), qobj.split)

\* mask 0 beside cmem 0x3: with val 0x3 the u3 (x) is executed, with val 0x1
\* the reset
C35_Witness ==
    /\ EmptyMaskPass
    /\ LastVal = 3 /\ last.pre.cmem = 3
    /\ LastIns.name = "u3"
    /\ last.res.self.sv # last.pre.sv

C35_WitnessOtherMemory ==
    /\ EmptyMaskPass
    /\ LastVal = 1 /\ last.pre.cmem = 3
    /\ LastIns.name = "reset"
    /\ ~last.res.skipped

\* ---------------------------------------------------------------------
\* C36  split mode under sampling

\* a sampled experiment on a split backend is running or has just returned
SplitSampling == qobj.split /\ sim.sample_measure /\ (Decided \/ JustReturned)

\* C36: in a sampled experiment on a split backend no pass creates
\* children, no pass breaks the loop of the dispatcher (it runs to the end
\* of the instruction list on the backend itself), and the emitted
\* statevector_tree is a single leaf.
C36_SplitUnderSampling ==
    /\ (SplitSampling /\ JustDispatched) =>
          /\ forked = {}
          /\ ~last.res.brk
          /\ last.path = <<>>
    /\ (SplitSampling /\ JustReturned /\ ReturnedTree # <<>>) =>
          ~IsInternal(ReturnedTree[1])

\* the same for the first experiment a backend runs
C36_FirstExperiment ==
    (returned = <<>> /\ (expIdx = 1 \/ (expIdx = 2 /\ pc = "idle")))
        => C36_SplitUnderSampling

\* a sampled experiment with two measures on a new split backend returned a
\* leaf after recording both
C36_Witness ==
    /\ SplitSampling /\ JustReturned
    /\ returned = <<>> /\ Len(results) = 1
    /\ Len(measure_sample_ops) = 2
    /\ ReturnedTree # <<>> /\ ~IsInternal(ReturnedTree[1])
    /\ sim.subs = <<>>

\* a sampled experiment broke the loop at its first measure and returned a
\* tree with the children of an earlier experiment
C36_StaleChildren ==
    /\ SplitSampling /\ JustReturned
    /\ Len(results) = 2
    /\ forked = {}
    /\ last.res.brk
    /\ IsInternal(ReturnedTree[1])

\* ---------------------------------------------------------------------
\* C37  termination

\* the steps of one run_experiment call that call a child simulator
CallStep ==
    \/ CallChild0
    \/ CallChildUnbound
    \/ CallChild1

\* its steps that compute: the shot loop, a pass of the dispatcher, the tail
\* of _run_single_shot
ComputeStep ==
    \/ BeginShot
    \/ DispatchStep
    \/ FinishShot
    \/ FinishExperiment

\* run_experiment is between its first shot and its return
InRunExperiment == pc \in {"shots", "run"}

\* run_experiment has returned a result or raised
RunExperimentOver == pc \in {"idle", "done", "error"}

\* a running call has a step to take: the shot loop starts a shot or ends,
\* and the innermost _run_single_shot is in its loop with an instruction to
\* dispatch, about to call a child, or in its tail
NeverStuck ==
    /\ pc = "shots" => shot <= EffectiveShots
    /\ pc = "run" =>
          /\ stack # <<>>
          /\ Top.ph \in {"loop", "after", "kid1", "tail"}
          /\ Top.ph = "loop" =>
                /\ Top.i \in 1..Len(Instructions)
                /\ Dispatch(NodeAt(sim, Top.path), Instructions[Top.i], qobj.split) # {}

\* the guards of the steps that compute
ComputeEnabled ==
    \/ pc = "shots"
    \/ /\ pc = "run"
       /\ \/ Top.ph \in {"loop", "tail"}
          \/ Top.ph = "after" /\ ~HasChildren(NodeAt(sim, Top.path))

\* weak fairness of the steps that compute, WF_vars(ComputeStep), written
\* with their guards in place of ENABLED <<ComputeStep>>_vars: under the
\* guards such a step exists and changes the state (NeverStuck)
ComputeGoesOn ==
    \/ []<>(~ComputeEnabled)
    \/ []<><<ComputeStep>>_vars

\* the program when the interpreter, which runs one statement after the
\* other, goes on with a run_experiment call that has a step to take
LiveSpec == Init /\ [][Next]_vars /\ WF_vars(CallStep) /\ ComputeGoesOn

RECURSIVE ShiftSteps(_)
\* the iterations of `while (mask & 0x1) == 0: mask >>= 1; value >>= 1`
ShiftSteps(mask) ==
    IF mask % 2 = 0 THEN 1 + ShiftSteps(mask \div 2) ELSE 0

PassesInLog == {j \in 1..Len(log) : log[j].ev = "pass"}

\* within a shot every simulator runs its passes at strictly increasing
\* indices, and a simulator called by another one starts past the index
\* that one stopped at
IndexIncreases ==
    \A a \in PassesInLog : \A b \in PassesInLog :
        /\ (a < b /\ log[a].path = log[b].path) => log[a].idx < log[b].idx
        /\ (IsPrefix(log[a].path, log[b].path) /\ log[a].path # log[b].path)
              => log[a].idx < log[b].idx

\* the shift loop of the masked conditional of the pass ends, after fewer
\* iterations than the mask has bits
ShiftEnds ==
    (JustDispatched /\ LastIns.conditional.kind = "mask" /\ LastMask > 0) =>
        Pow2(ShiftSteps(LastMask)) <= LastMask

\* the calls of _run_single_shot nested below call k of the stack are at
\* most the measure instructions from the index call k stopped at on
ForkDepthBounded ==
    pc = "run" =>
        \A k \in 1..(Len(stack) - 1) :
            Len(stack) - k
               <= MeasureCount(SubSeq(Instructions, stack[k].last, Len(Instructions)))

\* C37: every run_experiment call ends with a result or an error; the index
\* of the dispatcher strictly increases, the shift loop of a masked
\* conditional ends for every mask > 0, and the recursion below a call is at
\* most as deep as the number of measure instructions from its index on.
C37_Termination ==
    /\ InRunExperiment ~> RunExperimentOver
    /\ []IndexIncreases
    /\ []ShiftEnds
    /\ []ForkDepthBounded

\* the claim without the bound on the recursion
C37_Terminates ==
    /\ InRunExperiment ~> RunExperimentOver
    /\ []NeverStuck
    /\ []IndexIncreases
    /\ []ShiftEnds

\* the bound on the recursion for the first experiment a backend runs
C37_FirstExperimentDepth ==
    (returned = <<>> /\ expIdx = 1) => ForkDepthBounded

\* two forks deep in the first experiment, after a pass with mask 0x2
C37_Witness ==
    /\ pc = "run" /\ returned = <<>> /\ expIdx = 1
    /\ Len(stack) = 3
    /\ MeasureCount(Instructions) = 2

C37_WitnessShift ==
    /\ JustDispatched /\ LastIns.conditional.kind = "mask"
    /\ LastMask = 2 /\ ShiftSteps(LastMask) = 1

\* two calls deep below the backend in an experiment that has one measure:
\* the children of a child left from an earlier experiment are called
C37_StaleRecursion ==
    /\ pc = "run" /\ Len(stack) = 3
    /\ MeasureCount(Instructions) = 1

====
